---- MODULE Spec2Model ----
(***************************************************************************)
(* Model of the core of SoulMob: the Environmental Orchestrator            *)
(* (server/features/environmentalOrchestrator.ts), the Quaternary Logic    *)
(* Engine and the friction score calculator                                *)
(* (server/quantum/quaternaryLogic.ts), the Intent Projection engine and   *)
(* the Temporal Echo engine (server/features/intentProjection.ts).         *)
(*                                                                         *)
(* Conventions.                                                            *)
(*  - A JavaScript object is a TLA+ function whose DOMAIN is the set of    *)
(*    keys the object has; an optional field that is undefined is a key    *)
(*    that is not in the DOMAIN.                                           *)
(*  - Scores, intensities and thresholds (0..1 in the source) are integer  *)
(*    hundredths (0.7 is 70).                                              *)
(*  - The clock `now` counts minutes of local time since midnight of the   *)
(*    first day; Date.now() is `now`, getHours()/getMinutes() come from    *)
(*    it.                                                                  *)
(*  - An await suspends the call; its continuation is a promise job, and   *)
(*    promise jobs run in the order in which they were queued. The promise *)
(*    a call awaits is settled in the step that suspends the call, so the  *)
(*    job is queued in that step.                                          *)
(*  - A string that the code compares with < or > is the sequence of its   *)
(*    UTF-16 code units ("09:00" is <<48, 57, 58, 48, 48>>).               *)
(***************************************************************************)
EXTENDS Integers, Sequences, FiniteSets, TLC

VARIABLES
    devices,               \* Map<userId, SmartHomeDevice[]>; <<>> when the user has no entry
    policies,              \* Map<userId, EnvironmentalPolicy[]>; <<>> when the user has no entry
    orchestrationHistory,  \* OrchestrationResult[]
    calls,                 \* the orchestrate() invocations: position and locals of each
    jobs,                  \* the promise job queue: the suspended calls, first to resume first
    now,                   \* the clock
    evalCall,              \* one evaluateCondition call: its arguments and its return value
    rng,                   \* QuantumDecisionEngine.rng: the generator and its state
    decision,              \* the decide() calls made on the engine: their number, the last one
    friction,              \* one FrictionScoreCalculator.calculate call: its argument, its result
    time,                  \* Date.now() as the intent projection and temporal echo engines read it
    drafts,                \* IntentProjectionEngine.drafts: Map<userId, DraftCommunication[]>
    predictions,           \* IntentProjectionEngine.predictions: Map<userId, IntentPrediction[]>
    awaiting,              \* the predictAndDraft calls suspended at their await, first to resume first
    reply,                 \* the last call made on the intent projection engine and what it returned
    memories,              \* TemporalEchoEngine.memories: Map<userId, MemoryEntry[]>
    embeddings,            \* TemporalEchoEngine.embeddings: Map<userId, number[][]>
    answer                 \* the last call made on the temporal echo engine and what it returned

\* the state of the orchestrator and of evaluateCondition
orchestratorVars ==
    <<devices, policies, orchestrationHistory, calls, jobs, now, evalCall>>

\* the state of the decision engine
quantumVars == <<rng, decision>>

\* the state of the intent projection engine
projectionVars == <<drafts, predictions, awaiting, reply>>

\* the state of the temporal echo engine
echoVars == <<memories, embeddings, answer>>

vars == <<orchestratorVars, quantumVars, friction, time, projectionVars, echoVars>>

\* No call has been made on the friction score calculator.
NoFriction == [pc |-> "idle", metrics |-> <<>>, result |-> 0]

\* Lines 43-45 of intentProjection.ts: the maps of a new IntentProjectionEngine
\* are empty, and no call has been made.
NoReply == [op |-> "none"]

ProjectionIdle ==
    /\ drafts = <<>>
    /\ predictions = <<>>
    /\ awaiting = <<>>
    /\ reply = NoReply

\* Lines 439-440 of intentProjection.ts: the maps of a new TemporalEchoEngine
\* are empty, and no call has been made.
NoAnswer == [op |-> "none"]

EchoIdle ==
    /\ memories = <<>>
    /\ embeddings = <<>>
    /\ answer = NoAnswer

\* The first reading of Date.now().
FirstTime == 1

(***************************************************************************)
(* Strings and the clock                                                   *)
(***************************************************************************)

\* String(n).padStart(2, '0') for 0 <= n <= 99, as code units.
PadStart2(n) == <<48 + (n \div 10), 48 + (n % 10)>>

getHours(t) == (t \div 60) % 24

getMinutes(t) == t % 60

\* `${String(now.getHours()).padStart(2,'0')}:${String(now.getMinutes()).padStart(2,'0')}`
currentTime(t) == PadStart2(getHours(t)) \o <<58>> \o PadStart2(getMinutes(t))

\* JavaScript's a < b on strings: code unit by code unit, a proper prefix is smaller.
RECURSIVE StrLt(_, _)
StrLt(a, b) ==
    IF b = <<>> THEN FALSE
    ELSE IF a = <<>> THEN TRUE
    ELSE IF Head(a) # Head(b) THEN Head(a) < Head(b)
    ELSE StrLt(Tail(a), Tail(b))

(***************************************************************************)
(* evaluateCondition                                                       *)
(***************************************************************************)

Has(obj, key) == key \in DOMAIN obj

\* Lines 129-135. FALSE when the loop returns false. A key that emotionVector
\* does not have reads as undefined, and undefined < threshold is false.
emotionLoopPasses(condition, emotionVector) ==
    IF Has(condition, "emotionVector")
    THEN ~ \E emotion \in DOMAIN condition.emotionVector :
             /\ Has(emotionVector, emotion)
             /\ emotionVector[emotion] < condition.emotionVector[emotion]
    ELSE TRUE

\* The friction check with an exclusive lower bound.
frictionCheckPasses_StrictMin(condition, frictionScore) ==
    IF Has(condition, "frictionScore")
    THEN IF Has(condition.frictionScore, "min") /\ frictionScore <= condition.frictionScore.min
         THEN FALSE
         ELSE IF Has(condition.frictionScore, "max") /\ frictionScore > condition.frictionScore.max
              THEN FALSE
              ELSE TRUE
    ELSE TRUE

\* Lines 138-145. FALSE when one of the two ifs returns false.
frictionCheckPasses(condition, frictionScore) ==
    IF Has(condition, "frictionScore")
    THEN IF Has(condition.frictionScore, "min") /\ frictionScore < condition.frictionScore.min
         THEN FALSE
         ELSE IF Has(condition.frictionScore, "max") /\ frictionScore > condition.frictionScore.max
              THEN FALSE
              ELSE TRUE
    ELSE TRUE

\* The time check with the end of the window excluded.
timeCheckPasses_ExclusiveEnd(condition, t) ==
    IF Has(condition, "timeOfDay")
    THEN ~ (\/ StrLt(currentTime(t), condition.timeOfDay.start)
            \/ ~ StrLt(currentTime(t), condition.timeOfDay.end))
    ELSE TRUE

\* Lines 148-155. FALSE when the if returns false.
timeCheckPasses(condition, t) ==
    IF Has(condition, "timeOfDay")
    THEN ~ (\/ StrLt(currentTime(t), condition.timeOfDay.start)
            \/ StrLt(condition.timeOfDay.end, currentTime(t)))
    ELSE TRUE

\* evaluateCondition(condition, emotionVector, frictionScore), run at clock t.
evaluateCondition(condition, emotionVector, frictionScore, t) ==
    IF ~ emotionLoopPasses(condition, emotionVector) THEN FALSE
    ELSE IF ~ frictionCheckPasses(condition, frictionScore) THEN FALSE
    ELSE IF ~ timeCheckPasses(condition, t) THEN FALSE
    ELSE TRUE

(***************************************************************************)
(* JavaScript objects and arrays                                           *)
(***************************************************************************)

\* { ...a, ...b }
Spread(a, b) == [k \in DOMAIN a \cup DOMAIN b |-> IF k \in DOMAIN b THEN b[k] ELSE a[k]]

\* obj with obj[key] = value
Put(obj, key, value) == [k \in DOMAIN obj \cup {key} |-> IF k = key THEN value ELSE obj[k]]

\* userDevices.findIndex((d) => d.deviceId === deviceId), 1-based; 0 for JavaScript's -1
findIndex(userDevices, deviceId) ==
    IF \E k \in 1..Len(userDevices) : userDevices[k].deviceId = deviceId
    THEN CHOOSE k \in 1..Len(userDevices) :
            /\ userDevices[k].deviceId = deviceId
            /\ \A m \in 1..(k - 1) : userDevices[m].deviceId # deviceId
    ELSE 0

(***************************************************************************)
(* registerDevice, createPolicy                                            *)
(***************************************************************************)

\* registerDevice that keeps the state bag of the record it replaces.
registerDevice_KeepState(devs, device) ==
    LET userDevices   == devs[device.userId]
        existingIndex == findIndex(userDevices, device.deviceId)
    IN  IF existingIndex >= 1
        THEN [devs EXCEPT ![device.userId][existingIndex] =
                 [device EXCEPT !.state = Spread(userDevices[existingIndex].state, device.state)]]
        ELSE [devs EXCEPT ![device.userId] = Append(@, device)]

\* Lines 69-82: the device map after registerDevice(device).
registerDevice(devs, device) ==
    LET userDevices   == devs[device.userId]
        existingIndex == findIndex(userDevices, device.deviceId)
    IN  IF existingIndex >= 1
        THEN [devs EXCEPT ![device.userId][existingIndex] = device]
        ELSE [devs EXCEPT ![device.userId] = Append(@, device)]

\* createPolicy that replaces a policy of the same id.
createPolicy_UpsertById(pols, policy) ==
    LET userPolicies == pols[policy.userId]
    IN  IF \E k \in 1..Len(userPolicies) : userPolicies[k].id = policy.id
        THEN [pols EXCEPT ![policy.userId] =
                 [k \in 1..Len(userPolicies) |->
                     IF userPolicies[k].id = policy.id THEN policy ELSE userPolicies[k]]]
        ELSE [pols EXCEPT ![policy.userId] = Append(@, policy)]

\* Lines 87-93: the policy map after createPolicy(policy).
createPolicy(pols, policy) ==
    [pols EXCEPT ![policy.userId] = Append(@, policy)]

\* Lines 222-224.
getDevices(userId) == devices[userId]

\* Lines 229-231.
getPolicies(userId) == policies[userId]

(***************************************************************************)
(* sendDeviceCommand, executePolicy, orchestrate                           *)
(***************************************************************************)

\* sendDeviceCommand in which a key the state bag holds keeps its value.
sendDeviceCommand_KeepExisting(device, command, parameters, t) ==
    Put(Put(device, "state", Spread(Spread(parameters, device.state),
                                    [lastCommand |-> command, lastCommandTime |-> t])),
        "lastSyncedAt", t)

\* sendDeviceCommand that overwrites the state bag with the parameters.
sendDeviceCommand_ReplaceState(device, command, parameters, t) ==
    Put(Put(device, "state", Spread(parameters,
                                    [lastCommand |-> command, lastCommandTime |-> t])),
        "lastSyncedAt", t)

\* sendDeviceCommand that stamps lastCommand only on a device that has none.
sendDeviceCommand_KeepsFirstCommand(device, command, parameters, t) ==
    Put(Put(device, "state",
            Spread(Spread(device.state, parameters),
                   [lastCommand |-> IF Has(device.state, "lastCommand")
                                    THEN device.state.lastCommand ELSE command,
                    lastCommandTime |-> t])),
        "lastSyncedAt", t)

\* Lines 201-210: the device record after sendDeviceCommand at clock t
\* (the function returns true).
sendDeviceCommand(device, command, parameters, t) ==
    Put(Put(device, "state", Spread(Spread(device.state, parameters),
                                    [lastCommand |-> command, lastCommandTime |-> t])),
        "lastSyncedAt", t)

\* Lines 174-179 with success = true: error is undefined.
SucceededAction(actionSpec) ==
    [deviceId |-> actionSpec.deviceId, command |-> actionSpec.command, success |-> TRUE]

\* Lines 181-186.
NotFoundAction(actionSpec) ==
    [deviceId |-> actionSpec.deviceId, command |-> actionSpec.command,
     success |-> FALSE, error |-> "Device not found"]

\* Lines 190-195.
MakeResult(policy, actions, t) ==
    [policyId |-> policy.id, policyName |-> policy.policyName,
     triggeredAt |-> t, actions |-> actions]

\* executePolicy that returns at the first device it does not find.
RECURSIVE runActions_AbortOnMissing(_, _, _, _)
runActions_AbortOnMissing(devs, call, policy, t) ==
    IF call.j > Len(policy.action.devices)
    THEN [devices |-> devs,
          call    |-> [call EXCEPT !.pc = "awaitExecute",
                                   !.pending = <<MakeResult(policy, call.actions, t)>>]]
    ELSE LET actionSpec  == policy.action.devices[call.j]
             userDevices == IF call.userDevicesLive THEN devs[call.userId] ELSE <<>>
             k           == findIndex(userDevices, actionSpec.deviceId)
         IN  IF k >= 1
             THEN [devices |-> [devs EXCEPT ![call.userId][k] =
                                   sendDeviceCommand(@, actionSpec.command,
                                                     actionSpec.parameters, t)],
                   call    |-> [call EXCEPT !.pc = "awaitCommand"]]
             ELSE [devices |-> devs,
                   call    |-> [call EXCEPT
                                  !.pc = "awaitExecute",
                                  !.actions = Append(@, NotFoundAction(actionSpec)),
                                  !.pending = <<MakeResult(policy,
                                                  Append(call.actions,
                                                         NotFoundAction(actionSpec)), t)>>]]

\* executePolicy that looks a device up under the other users when the user
\* itself has none of that id.
RECURSIVE runActions_AnyUser(_, _, _, _)
runActions_AnyUser(devs, call, policy, t) ==
    IF call.j > Len(policy.action.devices)
    THEN [devices |-> devs,
          call    |-> [call EXCEPT !.pc = "awaitExecute",
                                   !.pending = <<MakeResult(policy, call.actions, t)>>]]
    ELSE LET actionSpec  == policy.action.devices[call.j]
             userDevices == IF call.userDevicesLive THEN devs[call.userId] ELSE <<>>
             k           == findIndex(userDevices, actionSpec.deviceId)
             owners      == {u \in DOMAIN devs : findIndex(devs[u], actionSpec.deviceId) >= 1}
         IN  IF k >= 1
             THEN [devices |-> [devs EXCEPT ![call.userId][k] =
                                   sendDeviceCommand(@, actionSpec.command,
                                                     actionSpec.parameters, t)],
                   call    |-> [call EXCEPT !.pc = "awaitCommand"]]
             ELSE IF owners # {}
                  THEN LET u == CHOOSE u \in owners : TRUE
                       IN  [devices |-> [devs EXCEPT
                                           ![u][findIndex(devs[u], actionSpec.deviceId)] =
                                              sendDeviceCommand(@, actionSpec.command,
                                                                actionSpec.parameters, t)],
                            call    |-> [call EXCEPT !.pc = "awaitCommand"]]
                  ELSE runActions_AnyUser(devs,
                                          [call EXCEPT
                                             !.actions = Append(@, NotFoundAction(actionSpec)),
                                             !.j = @ + 1],
                                          policy, t)

\* Lines 167-195, from the action call.j on, up to the next await: the await
\* of sendDeviceCommand (line 172), taken after the device was updated, or the
\* return of the result, which orchestrate awaits (line 111).
RECURSIVE runActions(_, _, _, _)
runActions(devs, call, policy, t) ==
    IF call.j > Len(policy.action.devices)
    THEN [devices |-> devs,
          call    |-> [call EXCEPT !.pc = "awaitExecute",
                                   !.pending = <<MakeResult(policy, call.actions, t)>>]]
    ELSE LET actionSpec  == policy.action.devices[call.j]
             userDevices == IF call.userDevicesLive THEN devs[call.userId] ELSE <<>>
             k           == findIndex(userDevices, actionSpec.deviceId)
         IN  IF k >= 1
             THEN [devices |-> [devs EXCEPT ![call.userId][k] =
                                   sendDeviceCommand(@, actionSpec.command,
                                                     actionSpec.parameters, t)],
                   call    |-> [call EXCEPT !.pc = "awaitCommand"]]
             ELSE runActions(devs,
                             [call EXCEPT !.actions = Append(@, NotFoundAction(actionSpec)),
                                          !.j = @ + 1],
                             policy, t)

\* Lines 163-166: executePolicy up to its first await. userDevices is the
\* user's live array, or a fresh empty one when the user has no entry.
executePolicy(devs, call, policy, t) ==
    runActions(devs,
               [call EXCEPT !.userDevicesLive = (devs[call.userId] # <<>>),
                            !.j = 1, !.actions = <<>>],
               policy, t)

\* The loop of orchestrate that runs inactive policies too.
RECURSIVE runPolicies_IgnoreActive(_, _, _, _)
runPolicies_IgnoreActive(devs, pols, call, t) ==
    LET userPolicies == pols[call.userId]
    IN  IF call.idx > Len(userPolicies)
        THEN [devices |-> devs, call |-> [call EXCEPT !.pc = "done"]]
        ELSE LET policy == userPolicies[call.idx]
             IN  IF evaluateCondition(policy.condition, call.emotionVector,
                                      call.frictionScore, t)
                 THEN executePolicy(devs, call, policy, t)
                 ELSE runPolicies_IgnoreActive(devs, pols, [call EXCEPT !.idx = @ + 1], t)

\* The loop of orchestrate that runs every active policy, whatever its
\* condition.
RECURSIVE runPolicies_RunsUnmatched(_, _, _, _)
runPolicies_RunsUnmatched(devs, pols, call, t) ==
    LET userPolicies == pols[call.userId]
    IN  IF call.idx > Len(userPolicies)
        THEN [devices |-> devs, call |-> [call EXCEPT !.pc = "done"]]
        ELSE LET policy == userPolicies[call.idx]
             IN  IF ~ policy.isActive
                 THEN runPolicies_RunsUnmatched(devs, pols, [call EXCEPT !.idx = @ + 1], t)
                 ELSE executePolicy(devs, call, policy, t)

\* The loop of orchestrate that returns after the first policy it executed.
RECURSIVE runPolicies_StopsAtFirstMatch(_, _, _, _)
runPolicies_StopsAtFirstMatch(devs, pols, call, t) ==
    LET userPolicies == pols[call.userId]
    IN  IF call.idx > Len(userPolicies) \/ call.results # <<>>
        THEN [devices |-> devs, call |-> [call EXCEPT !.pc = "done"]]
        ELSE LET policy == userPolicies[call.idx]
             IN  IF ~ policy.isActive
                 THEN runPolicies_StopsAtFirstMatch(devs, pols,
                                                    [call EXCEPT !.idx = @ + 1], t)
                 ELSE IF evaluateCondition(policy.condition, call.emotionVector,
                                           call.frictionScore, t)
                      THEN executePolicy(devs, call, policy, t)
                      ELSE runPolicies_StopsAtFirstMatch(devs, pols,
                                                         [call EXCEPT !.idx = @ + 1], t)

\* The loop of orchestrate that returns once a policy it ran had every action
\* fail.
RECURSIVE runPolicies_StopAfterFailure(_, _, _, _)
runPolicies_StopAfterFailure(devs, pols, call, t) ==
    LET userPolicies == pols[call.userId]
        last         == call.results[Len(call.results)]
        failed       == /\ call.results # <<>>
                        /\ \A k \in 1..Len(last.actions) : ~ last.actions[k].success
    IN  IF call.idx > Len(userPolicies) \/ failed
        THEN [devices |-> devs, call |-> [call EXCEPT !.pc = "done"]]
        ELSE LET policy == userPolicies[call.idx]
             IN  IF ~ policy.isActive
                 THEN runPolicies_StopAfterFailure(devs, pols, [call EXCEPT !.idx = @ + 1], t)
                 ELSE IF evaluateCondition(policy.condition, call.emotionVector,
                                           call.frictionScore, t)
                      THEN executePolicy(devs, call, policy, t)
                      ELSE runPolicies_StopAfterFailure(devs, pols,
                                                        [call EXCEPT !.idx = @ + 1], t)

\* Lines 106-117, from the policy call.idx on, up to the next await or the
\* return. for...of reads the live array: its length is read at every step.
RECURSIVE runPolicies(_, _, _, _)
runPolicies(devs, pols, call, t) ==
    LET userPolicies == pols[call.userId]
    IN  IF call.idx > Len(userPolicies)
        THEN [devices |-> devs, call |-> [call EXCEPT !.pc = "done"]]
        ELSE LET policy == userPolicies[call.idx]
             IN  IF ~ policy.isActive
                 THEN runPolicies(devs, pols, [call EXCEPT !.idx = @ + 1], t)
                 ELSE IF evaluateCondition(policy.condition, call.emotionVector,
                                           call.frictionScore, t)
                      THEN executePolicy(devs, call, policy, t)
                      ELSE runPolicies(devs, pols, [call EXCEPT !.idx = @ + 1], t)

\* A call that has not been made.
IdleCall ==
    [pc |-> "idle", userId |-> "u1", emotionVector |-> <<>>, frictionScore |-> 0,
     idx |-> 1, results |-> <<>>,
     userDevicesLive |-> FALSE, j |-> 1, actions |-> <<>>, pending |-> <<>>]

\* Lines 98-104: the locals of orchestrate(userId, emotionVector, frictionScore).
NewCall(userId, emotionVector, frictionScore) ==
    [IdleCall EXCEPT !.userId = userId, !.emotionVector = emotionVector,
                     !.frictionScore = frictionScore]

\* The job queue after call c ran up to `call`: at an await its continuation
\* is queued behind the jobs that are waiting; a call that returned queues none.
Suspend(queue, c, call) ==
    IF call.pc = "done" THEN queue ELSE Append(queue, c)

\* Lines 215-217.
getHistory(userId, limit) ==
    LET kept == SelectSeq(orchestrationHistory, LAMBDA r : r.triggeredAt # 0)
        n    == Len(kept)
        \* slice(-limit): a start of -0 is 0, a negative start counts from the end
        from == IF limit = 0 THEN 0 ELSE IF n - limit < 0 THEN 0 ELSE n - limit
    IN  SubSeq(kept, from + 1, n)

(***************************************************************************)
(* Bounds and inputs                                                       *)
(***************************************************************************)

\* orchestrate() invocations in one behaviour
MaxCalls == 2

\* policies created in one behaviour
MaxPolicies == 2

Users == {"u1", "u2"}

CallIds == 1..MaxCalls

\* The instants at which the clock is read: 08:59 and 09:00 of the first day.
Instants == {8 * 60 + 59, 9 * 60}

FirstInstant == 8 * 60 + 59

Str0900 == <<48, 57, 58, 48, 48>>
Str1700 == <<49, 55, 58, 48, 48>>
Str2200 == <<50, 50, 58, 48, 48>>
Str0600 == <<48, 54, 58, 48, 48>>

\* The devices that are registered (argument of registerDevice).
DeviceInputs ==
    { [userId |-> "u1", deviceId |-> "d1", deviceName |-> "Living Room Light",
       state |-> [on |-> 1, brightness |-> 100]],
      [userId |-> "u1", deviceId |-> "d2", deviceName |-> "Bedroom Speaker",
       state |-> [volume |-> 50]],
      [userId |-> "u2", deviceId |-> "d1", deviceName |-> "Hall Light",
       state |-> [on |-> 1]] }

FocusMode ==
    [id |-> "policy-1", userId |-> "u1", policyName |-> "Focus Mode",
     condition |-> [emotionVector |-> [focused |-> 70],
                    frictionScore |-> [min |-> 30, max |-> 80]],
     action |-> [devices |-> << [deviceId |-> "d2", command |-> "play_playlist",
                                 parameters |-> [volume |-> 30]],
                                [deviceId |-> "d1", command |-> "set_brightness",
                                 parameters |-> [brightness |-> 60]] >>],
     isActive |-> TRUE]

\* Same id as FocusMode; its parameters name a key that sendDeviceCommand stamps.
RelaxMode ==
    [id |-> "policy-1", userId |-> "u1", policyName |-> "Relax Mode",
     condition |-> <<>>,
     action |-> [devices |-> << [deviceId |-> "d1", command |-> "dim",
                                 parameters |-> [brightness |-> 20,
                                                 lastCommand |-> "manual"]] >>],
     isActive |-> TRUE]

Disabled ==
    [id |-> "policy-3", userId |-> "u1", policyName |-> "Disabled",
     condition |-> <<>>,
     action |-> [devices |-> << [deviceId |-> "d1", command |-> "turn_off",
                                 parameters |-> [on |-> 0]] >>],
     isActive |-> FALSE]

OfficeHours ==
    [id |-> "policy-4", userId |-> "u1", policyName |-> "Office Hours",
     condition |-> [timeOfDay |-> [start |-> Str0900, end |-> Str1700]],
     action |-> [devices |-> << [deviceId |-> "d1", command |-> "turn_on",
                                 parameters |-> [on |-> 1]] >>],
     isActive |-> TRUE]

\* A policy of u2; no device d2 is registered for u2, one is for u1.
GuestMode ==
    [id |-> "policy-5", userId |-> "u2", policyName |-> "Guest Mode",
     condition |-> <<>>,
     action |-> [devices |-> << [deviceId |-> "d2", command |-> "mute",
                                 parameters |-> [volume |-> 0]],
                                [deviceId |-> "d1", command |-> "turn_off",
                                 parameters |-> [on |-> 0]] >>],
     isActive |-> TRUE]

\* The policies that are created (argument of createPolicy).
PolicyInputs == {FocusMode, RelaxMode, Disabled, OfficeHours, GuestMode}

\* The emotion vectors and friction scores orchestrate is called with.
EmotionInputs == { [focused |-> 80, tired |-> 10], [focused |-> 30, tired |-> 10] }

FrictionInputs == {50}

(***************************************************************************)
(* The orchestrator as a state machine                                     *)
(***************************************************************************)

\* No engine was constructed, no decide call was made.
NoEngine == [seeded |-> FALSE, seed |-> 0]

NoDecision ==
    [count |-> 0, context |-> <<>>, observations |-> <<>>, trits |-> <<>>, result |-> <<>>]

NoEval ==
    [pc |-> "idle", condition |-> <<>>, emotionVector |-> <<>>, frictionScore |-> 0,
     result |-> FALSE]

Init ==
    /\ devices = [u \in Users |-> <<>>]
    /\ policies = [u \in Users |-> <<>>]
    /\ orchestrationHistory = <<>>
    /\ calls = [c \in CallIds |-> IdleCall]
    /\ jobs = <<>>
    /\ now = FirstInstant
    /\ evalCall = NoEval
    /\ rng = NoEngine
    /\ decision = NoDecision
    /\ friction = NoFriction
    /\ time = FirstTime
    /\ ProjectionIdle
    /\ EchoIdle

\* registerDevice(device)
RegisterDevice(device) ==
    /\ devices' = registerDevice(devices, device)
    /\ devices' # devices
    /\ UNCHANGED <<policies, orchestrationHistory, calls, jobs, now, evalCall, quantumVars, friction, time, projectionVars, echoVars>>

\* createPolicy(policy)
CreatePolicy(policy) ==
    /\ Len(policies["u1"]) + Len(policies["u2"]) < MaxPolicies
    /\ policies' = createPolicy(policies, policy)
    /\ UNCHANGED <<devices, orchestrationHistory, calls, jobs, now, evalCall, quantumVars, friction, time, projectionVars, echoVars>>

\* orchestrate(userId, emotionVector, frictionScore) is called and runs to its
\* first await, or to its return when nothing is awaited.
Orchestrate(c, userId, emotionVector, frictionScore) ==
    /\ calls[c].pc = "idle"
    /\ \A b \in CallIds : b < c => calls[b].pc # "idle"
    /\ LET r == runPolicies(devices, policies,
                            NewCall(userId, emotionVector, frictionScore), now)
       IN  /\ devices' = r.devices
           /\ calls' = [calls EXCEPT ![c] = r.call]
           /\ jobs' = Suspend(jobs, c, r.call)
    /\ UNCHANGED <<policies, orchestrationHistory, now, evalCall, quantumVars, friction, time, projectionVars, echoVars>>

\* The await of line 172 resumes: the outcome is pushed (lines 174-179) and
\* executePolicy goes on to its next await.
ResumeCommand(c) ==
    /\ calls[c].pc = "awaitCommand"
    /\ jobs # <<>> /\ Head(jobs) = c
    /\ LET call   == calls[c]
           policy == policies[call.userId][call.idx]
           r == runActions(devices,
                           [call EXCEPT !.actions = Append(@, SucceededAction(
                                                        policy.action.devices[call.j])),
                                        !.j = @ + 1],
                           policy, now)
       IN  /\ devices' = r.devices
           /\ calls' = [calls EXCEPT ![c] = r.call]
           /\ jobs' = Suspend(Tail(jobs), c, r.call)
    /\ UNCHANGED <<policies, orchestrationHistory, now, evalCall, quantumVars, friction, time, projectionVars, echoVars>>

\* The resumption that records the result in results only.
ResumeExecute_NoHistory(c) ==
    /\ calls[c].pc = "awaitExecute"
    /\ jobs # <<>> /\ Head(jobs) = c
    /\ LET call   == calls[c]
           result == call.pending[1]
           r == runPolicies(devices, policies,
                            [call EXCEPT !.results = Append(@, result),
                                         !.pending = <<>>, !.actions = <<>>, !.j = 1,
                                         !.userDevicesLive = FALSE,
                                         !.idx = @ + 1],
                            now)
       IN  /\ orchestrationHistory' = orchestrationHistory
           /\ devices' = r.devices
           /\ calls' = [calls EXCEPT ![c] = r.call]
           /\ jobs' = Suspend(Tail(jobs), c, r.call)
    /\ UNCHANGED <<policies, now, evalCall, quantumVars, friction, time, projectionVars, echoVars>>

\* The resumption of line 111 taken out of turn: the call need not be the
\* first of the job queue.
ResumeExecute_AnyOrder(c) ==
    /\ calls[c].pc = "awaitExecute"
    /\ LET call   == calls[c]
           result == call.pending[1]
           r == runPolicies(devices, policies,
                            [call EXCEPT !.results = Append(@, result),
                                         !.pending = <<>>, !.actions = <<>>, !.j = 1,
                                         !.userDevicesLive = FALSE,
                                         !.idx = @ + 1],
                            now)
       IN  /\ orchestrationHistory' = Append(orchestrationHistory, result)
           /\ devices' = r.devices
           /\ calls' = [calls EXCEPT ![c] = r.call]
           /\ jobs' = Suspend(SelectSeq(jobs, LAMBDA b : b # c), c, r.call)
    /\ UNCHANGED <<policies, now, evalCall, quantumVars, friction, time, projectionVars, echoVars>>

\* The await of line 111 resumes: the result is pushed to results and to the
\* history (lines 112-113) and the loop goes on to its next await or returns.
ResumeExecute(c) ==
    /\ calls[c].pc = "awaitExecute"
    /\ jobs # <<>> /\ Head(jobs) = c
    /\ LET call   == calls[c]
           result == call.pending[1]
           r == runPolicies(devices, policies,
                            [call EXCEPT !.results = Append(@, result),
                                         !.pending = <<>>, !.actions = <<>>, !.j = 1,
                                         !.userDevicesLive = FALSE,
                                         !.idx = @ + 1],
                            now)
       IN  /\ orchestrationHistory' = Append(orchestrationHistory, result)
           /\ devices' = r.devices
           /\ calls' = [calls EXCEPT ![c] = r.call]
           /\ jobs' = Suspend(Tail(jobs), c, r.call)
    /\ UNCHANGED <<policies, now, evalCall, quantumVars, friction, time, projectionVars, echoVars>>

\* Time passes.
Tick ==
    /\ \E t \in Instants : t > now /\ now' = t
    /\ UNCHANGED <<devices, policies, orchestrationHistory, calls, jobs, evalCall, quantumVars, friction, time, projectionVars, echoVars>>

Next ==
    \/ \E device \in DeviceInputs : RegisterDevice(device)
    \/ \E policy \in PolicyInputs : CreatePolicy(policy)
    \/ \E c \in CallIds, userId \in Users, emotionVector \in EmotionInputs,
          frictionScore \in FrictionInputs :
          Orchestrate(c, userId, emotionVector, frictionScore)
    \/ \E c \in CallIds : ResumeCommand(c)
    \/ \E c \in CallIds : ResumeExecute(c)
    \/ Tick

Spec == Init /\ [][Next]_vars

\* One orchestrate call, with registerDevice, createPolicy and the clock running
\* while it is suspended at its awaits.
NextCall ==
    \/ \E device \in DeviceInputs : RegisterDevice(device)
    \/ \E policy \in PolicyInputs : CreatePolicy(policy)
    \/ \E userId \in Users, emotionVector \in EmotionInputs,
          frictionScore \in FrictionInputs :
          Orchestrate(1, userId, emotionVector, frictionScore)
    \/ ResumeCommand(1)
    \/ ResumeExecute(1)
    \/ Tick

SpecCall == Init /\ [][NextCall]_vars

\* A promise job that is queued is run: the continuation of an await whose
\* promise is settled is not postponed for ever.
RunJob == \E c \in CallIds : ResumeCommand(c) \/ ResumeExecute(c)

SpecLive == Spec /\ WF_vars(RunJob)

\* The same for the one call of SpecCall.
SpecCallLive == SpecCall /\ WF_vars(ResumeCommand(1) \/ ResumeExecute(1))

(***************************************************************************)
(* evaluateCondition on its own                                            *)
(***************************************************************************)

EvalInstants ==
    {8 * 60 + 59, 9 * 60, 12 * 60, 17 * 60, 17 * 60 + 1, 23 * 60, 24 * 60 + 3 * 60}

EvalEmotionClauses ==
    { <<>>,
      [emotionVector |-> [focused |-> 70]],
      [emotionVector |-> [focused |-> 70, tired |-> 50]],
      [emotionVector |-> [focused |-> 0]],
      [emotionVector |-> <<>>] }

EvalFrictionClauses ==
    { <<>>,
      [frictionScore |-> [min |-> 30, max |-> 80]],
      [frictionScore |-> [min |-> 30]],
      [frictionScore |-> [max |-> 80]],
      [frictionScore |-> <<>>] }

EvalTimeClauses ==
    { <<>>,
      [timeOfDay |-> [start |-> Str0900, end |-> Str1700]],
      [timeOfDay |-> [start |-> Str2200, end |-> Str0600]] }

EvalConditions ==
    { Spread(Spread(e, f), w) :
        e \in EvalEmotionClauses, f \in EvalFrictionClauses, w \in EvalTimeClauses }

EvalEmotionVectors ==
    { [focused |-> 80, tired |-> 10],
      [focused |-> 70, tired |-> 50],
      [focused |-> 30, tired |-> 60],
      [tired |-> 60],
      <<>> }

EvalFrictionScores == {29, 30, 50, 80, 81}

InitEval ==
    /\ devices = [u \in Users |-> <<>>]
    /\ policies = [u \in Users |-> <<>>]
    /\ orchestrationHistory = <<>>
    /\ calls = [c \in CallIds |-> IdleCall]
    /\ jobs = <<>>
    /\ now \in EvalInstants
    /\ evalCall \in { [pc |-> "called", condition |-> condition,
                       emotionVector |-> emotionVector, frictionScore |-> frictionScore,
                       result |-> FALSE] :
                      condition \in EvalConditions,
                      emotionVector \in EvalEmotionVectors,
                      frictionScore \in EvalFrictionScores }
    /\ rng = NoEngine
    /\ decision = NoDecision
    /\ friction = NoFriction
    /\ time = FirstTime
    /\ ProjectionIdle
    /\ EchoIdle

\* evaluateCondition(condition, emotionVector, frictionScore) runs and returns.
Evaluate ==
    /\ evalCall.pc = "called"
    /\ evalCall' = [evalCall EXCEPT
                      !.pc = "returned",
                      !.result = evaluateCondition(evalCall.condition,
                                                   evalCall.emotionVector,
                                                   evalCall.frictionScore, now)]
    /\ UNCHANGED <<devices, policies, orchestrationHistory, calls, jobs, now, quantumVars, friction, time, projectionVars, echoVars>>

NextEval == Evaluate

SpecEval == InitEval /\ [][NextEval]_vars

(***************************************************************************)
(* The Quaternary Logic Engine (quantum/quaternaryLogic.ts)                *)
(*                                                                         *)
(* A number in [0, 1] that the code compares or divides is a fraction      *)
(* [num, den]; a den of 0 with a num of 0 is the NaN of 0 / 0.             *)
(***************************************************************************)

\* observation < hundredths / 100
Below(observation, hundredths) == observation.num * 100 < hundredths * observation.den

\* collapseQubit with both cut points on the lower side.
collapseQubit_CutPointsBelow(observation) ==
    IF observation.num * 100 <= 33 * observation.den THEN "FALSE"
    ELSE IF observation.num * 100 <= 66 * observation.den THEN "TRUE"
    ELSE "SUPERPOSITION"

\* Lines 42-50.
collapseQubit(observation) ==
    IF Below(observation, 33) THEN "FALSE"
    ELSE IF Below(observation, 66) THEN "TRUE"
    ELSE "SUPERPOSITION"

\* checkEntanglement that asks for one device id or more.
checkEntanglement_AnyDevice(context) ==
    /\ Has(context, "multiDeviceContext") /\ context.multiDeviceContext = TRUE
    /\ Has(context, "deviceIds")
    /\ Len(context.deviceIds) > 0

\* Lines 55-61.
checkEntanglement(context) ==
    /\ Has(context, "multiDeviceContext") /\ context.multiDeviceContext = TRUE
    /\ Has(context, "deviceIds")
    /\ Len(context.deviceIds) > 1

\* trits.filter((t) => t === trit).length
CountOf(trits, trit) == Cardinality({i \in 1..Len(trits) : trits[i] = trit})

\* Lines 89-93, as Object.entries lists it: the keys in the order in which the
\* object literal sets them.
triCounts(trits) ==
    << <<"TRUE", CountOf(trits, "TRUE")>>,
       <<"FALSE", CountOf(trits, "FALSE")>>,
       <<"SUPERPOSITION", CountOf(trits, "SUPERPOSITION")>> >>

\* entry put into a list sorted by ([, a], [, b]) => b - a: behind every entry
\* that the comparator does not place after it (Array.prototype.sort is stable).
RECURSIVE InsertEntry(_, _)
InsertEntry(sorted, entry) ==
    IF sorted = <<>> THEN <<entry>>
    ELSE IF entry[2] - Head(sorted)[2] > 0
         THEN <<entry>> \o sorted
         ELSE <<Head(sorted)>> \o InsertEntry(Tail(sorted), entry)

\* entries.sort(([, a], [, b]) => b - a)
RECURSIVE SortEntries(_)
SortEntries(entries) ==
    IF entries = <<>> THEN <<>>
    ELSE InsertEntry(SortEntries(SubSeq(entries, 1, Len(entries) - 1)),
                     entries[Len(entries)])

\* The majority taken from the entries sorted by ascending count.
majorityTriState_Ascending(trits) ==
    LET sorted == SortEntries(triCounts(trits)) IN sorted[Len(sorted)][1]

\* Line 95.
majorityTriState(trits) == SortEntries(triCounts(trits))[1][1]

\* The smallest of the three counts.
MaxCount_Smallest(trits) ==
    LET counts == {triCounts(trits)[i][2] : i \in 1..3}
    IN  CHOOSE m \in counts : \A n \in counts : m <= n

\* The count of the first key of the counts.
MaxCount_FirstKey(trits) == triCounts(trits)[1][2]

\* Math.max(...Object.values(triCounts))
MaxCount(trits) ==
    LET counts == {triCounts(trits)[i][2] : i \in 1..3}
    IN  CHOOSE m \in counts : \A n \in counts : n <= m

\* The routing with the entangled row taken for every majority.
action_EntangledFirst(hasEntanglement, majority) ==
    IF hasEntanglement THEN "ORCHESTRATE_SYNC"
    ELSE IF majority = "TRUE" THEN "PROCEED_LOCAL"
    ELSE IF majority = "FALSE" THEN "SKIP_LOCAL"
    ELSE "DEFER_UNTIL_COLLAPSE"

\* Lines 104-116.
action(hasEntanglement, majority) ==
    IF hasEntanglement /\ majority = "TRUE" THEN "ORCHESTRATE_SYNC"
    ELSE IF majority = "TRUE" THEN "PROCEED_LOCAL"
    ELSE IF majority = "FALSE" THEN "SKIP_LOCAL"
    ELSE "DEFER_UNTIL_COLLAPSE"

\* Lines 104-116.
reasoning(hasEntanglement, majority) ==
    IF hasEntanglement /\ majority = "TRUE"
    THEN "Multi-device synchronization required for this action"
    ELSE IF majority = "TRUE" THEN "Majority vote indicates proceed"
    ELSE IF majority = "FALSE" THEN "Majority vote indicates skip"
    ELSE "Superposition state detected; deferring until more data available"

\* decide that collapses the features themselves (hundredths) and leaves the
\* observations aside.
decide_CollapsesFeatures(context, observations) ==
    LET trits           == [i \in 1..Len(context.features) |->
                               collapseQubit([num |-> context.features[i], den |-> 100])]
        majority        == majorityTriState(trits)
        hasEntanglement == checkEntanglement(context)
        base == [action     |-> action(hasEntanglement, majority),
                 confidence |-> [num |-> MaxCount(trits), den |-> Len(trits)],
                 triState   |-> majority,
                 reasoning  |-> reasoning(hasEntanglement, majority)]
    IN  IF hasEntanglement THEN Put(base, "quatState", "ENTANGLEMENT") ELSE base

\* Lines 88-127: the result of decide(context) when the generator returned
\* `observations`, one for each feature. quatState: undefined is a result
\* without the key.
decide(context, observations) ==
    LET trits           == [i \in 1..Len(context.features) |->
                               collapseQubit(observations[i])]
        majority        == majorityTriState(trits)
        hasEntanglement == checkEntanglement(context)
        base == [action     |-> action(hasEntanglement, majority),
                 confidence |-> [num |-> MaxCount(trits), den |-> Len(trits)],
                 triState   |-> majority,
                 reasoning  |-> reasoning(hasEntanglement, majority)]
    IN  IF hasEntanglement THEN Put(base, "quatState", "ENTANGLEMENT") ELSE base

\* Line 135's modulus.
Modulus == 233280

\* Line 135: (seed * 9301 + 49297) % 233280 for a seed >= 0, the product
\* seed * 9301 taken as (seed * 93) * 100 + seed and reduced on the way.
nextSeed(seed) == ((((seed * 93) % Modulus) * 100) + seed + 49297) % Modulus

\* The seeded generator that starts every decide call from the seed it was
\* constructed with.
RECURSIVE seededRandom_Restarts(_, _)
seededRandom_Restarts(seed, n) ==
    IF n = 0 THEN [observations |-> <<>>, seed |-> seed]
    ELSE LET rest == seededRandom_Restarts(nextSeed(seed), n - 1)
         IN  [observations |-> <<[num |-> nextSeed(seed), den |-> Modulus]>>
                                  \o rest.observations,
              seed |-> seed]

\* The observations of n calls of the seeded generator, and the seed they
\* leave (lines 133-138).
RECURSIVE seededRandom(_, _)
seededRandom(seed, n) ==
    IF n = 0 THEN [observations |-> <<>>, seed |-> seed]
    ELSE LET rest == seededRandom(nextSeed(seed), n - 1)
         IN  [observations |-> <<[num |-> nextSeed(seed), den |-> Modulus]>>
                                  \o rest.observations,
              seed |-> rest.seed]

\* decide() calls in one behaviour
MaxDecisions == 2

\* The seeds an engine is constructed with.
SeedInputs == {0, 42, 12345}

\* What Math.random returns, in thousandths: the cut points and the values
\* just below them.
ObservationInputs == { [num |-> n, den |-> 1000] : n \in {329, 330, 659, 660} }

\* The feature vectors decide is called with, in hundredths.
FeatureInputs == { <<>>, <<50>>, <<10, 90>>, <<10, 50, 90>>, <<70, 70, 70>> }

MultiDeviceInputs == { <<>>, [multiDeviceContext |-> TRUE], [multiDeviceContext |-> FALSE] }

DeviceIdInputs ==
    { <<>>, [deviceIds |-> <<>>], [deviceIds |-> <<"phone">>],
      [deviceIds |-> <<"phone", "tablet">>] }

\* The contexts decide is called with: every combination of the device flags
\* with one feature, and every feature vector without the flags and with
\* multiDeviceContext true and two device ids.
ContextInputs ==
    { Spread(Spread([userId |-> "user-1", features |-> <<50>>], m), d) :
        m \in MultiDeviceInputs, d \in DeviceIdInputs }
    \cup
    { Spread([userId |-> "user-1", features |-> features], flags) :
        features \in FeatureInputs,
        flags \in { <<>>, [multiDeviceContext |-> TRUE,
                           deviceIds |-> <<"phone", "tablet">>] } }

\* What n calls of this.rng() may return, and the generator state they leave.
Draws(generator, n) ==
    IF generator.seeded
    THEN { seededRandom(generator.seed, n) }
    ELSE { [observations |-> observations, seed |-> generator.seed] :
             observations \in [1..n -> ObservationInputs] }

\* Lines 69-76: new QuantumDecisionEngine(seed) or new QuantumDecisionEngine().
InitDecide ==
    /\ devices = [u \in Users |-> <<>>]
    /\ policies = [u \in Users |-> <<>>]
    /\ orchestrationHistory = <<>>
    /\ calls = [c \in CallIds |-> IdleCall]
    /\ jobs = <<>>
    /\ now = FirstInstant
    /\ evalCall = NoEval
    /\ rng \in {[seeded |-> FALSE, seed |-> 0]}
                  \cup {[seeded |-> TRUE, seed |-> seed] : seed \in SeedInputs}
    /\ decision = NoDecision
    /\ friction = NoFriction
    /\ time = FirstTime
    /\ ProjectionIdle
    /\ EchoIdle

\* decide(context)
Decide(context) ==
    /\ decision.count < MaxDecisions
    /\ \E draw \in Draws(rng, Len(context.features)) :
          /\ decision' = [count        |-> decision.count + 1,
                          context      |-> context,
                          observations |-> draw.observations,
                          trits        |-> [i \in 1..Len(draw.observations) |->
                                               collapseQubit(draw.observations[i])],
                          result       |-> decide(context, draw.observations)]
          /\ rng' = [rng EXCEPT !.seed = draw.seed]
    /\ UNCHANGED <<orchestratorVars, friction, time, projectionVars, echoVars>>

NextDecide == \E context \in ContextInputs : Decide(context)

SpecDecide == InitDecide /\ [][NextDecide]_vars

(***************************************************************************)
(* Policy evaluation: properties of SpecEval                               *)
(***************************************************************************)

\* The input value of an emotion, a missing one counting as 0.
ValueOrZero(emotionVector, emotion) ==
    IF Has(emotionVector, emotion) THEN emotionVector[emotion] ELSE 0

\* C2: the emotion clause passes iff, for every (emotion, threshold) pair of
\* the condition, the input value is >= threshold, a missing input value
\* counting as 0. Stated on the conditions that hold an emotion clause only,
\* where the verdict of evaluateCondition is the verdict of that clause.
C2_MissingEmotionCountsAsZero ==
    (evalCall.pc = "returned" /\ DOMAIN evalCall.condition = {"emotionVector"})
    => (evalCall.result <=>
          \A emotion \in DOMAIN evalCall.condition.emotionVector :
             ValueOrZero(evalCall.emotionVector, emotion)
                >= evalCall.condition.emotionVector[emotion])

\* The friction clause as the specification words it: both bounds inclusive.
FrictionClauseHolds(condition, frictionScore) ==
    Has(condition, "frictionScore") =>
        /\ Has(condition.frictionScore, "min") => frictionScore >= condition.frictionScore.min
        /\ Has(condition.frictionScore, "max") => frictionScore <= condition.frictionScore.max

\* C3: a condition matches iff every clause that is present passes, a clause
\* that is absent passing trivially; the friction clause passes iff
\* score >= min when min is set and score <= max when max is set.
C3_MatchesIffEveryPresentClausePasses ==
    evalCall.pc = "returned" =>
        (evalCall.result <=>
            /\ (Has(evalCall.condition, "emotionVector") =>
                    emotionLoopPasses(evalCall.condition, evalCall.emotionVector))
            /\ FrictionClauseHolds(evalCall.condition, evalCall.frictionScore)
            /\ (Has(evalCall.condition, "timeOfDay") =>
                    timeCheckPasses(evalCall.condition, now)))

\* A condition with all three clauses matched with the score equal to min.
C3_Witness ==
    /\ evalCall.pc = "returned"
    /\ evalCall.result
    /\ DOMAIN evalCall.condition = {"emotionVector", "frictionScore", "timeOfDay"}
    /\ evalCall.condition.emotionVector # <<>>
    /\ Has(evalCall.condition.frictionScore, "min")
    /\ evalCall.frictionScore = evalCall.condition.frictionScore.min

(***************************************************************************)
(* Orchestration: properties of SpecCall and Spec                          *)
(***************************************************************************)

\* The clock readings a call may have seen, one per policy it examined:
\* non-decreasing and not in the future.
ExaminationTimes(n) ==
    { tau \in [1..n -> {t \in Instants : t <= now}] :
        \A k \in 1..n, m \in 1..n : k <= m => tau[k] <= tau[m] }

\* C1: orchestrate returns exactly one result for each policy of the user that
\* is active and whose condition matches (when the loop reaches it), in policy
\* creation order, and no result for an inactive or non-matching policy.
\* call.idx - 1 is the number of policies the returned call has iterated over.
C1_OneResultPerActiveMatchingPolicy ==
    \A c \in CallIds :
        calls[c].pc = "done" =>
            LET call         == calls[c]
                userPolicies == policies[call.userId]
                n            == call.idx - 1
            IN  \E tau \in ExaminationTimes(n) :
                    LET Selected(k) ==
                            /\ userPolicies[k].isActive
                            /\ evaluateCondition(userPolicies[k].condition,
                                                 call.emotionVector,
                                                 call.frictionScore, tau[k])
                        chosen == SelectSeq([k \in 1..n |-> k], Selected)
                    IN  /\ Len(call.results) = Len(chosen)
                        /\ \A i \in 1..Len(chosen) :
                              /\ call.results[i].policyId = userPolicies[chosen[i]].id
                              /\ call.results[i].policyName
                                    = userPolicies[chosen[i]].policyName

\* A call returned one result after it went over two policies.
C1_Witness ==
    \E c \in CallIds :
        /\ calls[c].pc = "done"
        /\ calls[c].idx = 3
        /\ Len(calls[c].results) = 1

\* deviceId is registered for userId
Registered(devs, userId, deviceId) ==
    \E k \in 1..Len(devs[userId]) : devs[userId][k].deviceId = deviceId

\* The outcomes of the policy execution a call is in; none outside one.
OutcomesOf(call) ==
    IF call.pc \in {"awaitCommand", "awaitExecute"} THEN call.actions ELSE <<>>

\* One step of call c, as C4 sees it: the outcomes recorded in the step follow
\* the policy's device list, and each succeeds iff its device is registered.
C4_Step(c) ==
    LET before  == IF calls[c].pc = "awaitCommand" THEN calls[c].actions ELSE <<>>
        call    == calls'[c]
        after   == OutcomesOf(call)
        entries == policies[call.userId][call.idx].action.devices
    IN  (calls'[c] # calls[c] /\ call.pc \in {"awaitCommand", "awaitExecute"}) =>
            /\ Len(before) <= Len(after)
            /\ SubSeq(after, 1, Len(before)) = before
            /\ Len(after) <= Len(entries)
            /\ \A k \in (Len(before) + 1)..Len(after) :
                  /\ after[k].deviceId = entries[k].deviceId
                  /\ after[k].command = entries[k].command
                  /\ after[k].success
                        = Registered(devices, call.userId, entries[k].deviceId)
                  /\ IF after[k].success
                     THEN ~ Has(after[k], "error")
                     ELSE Has(after[k], "error") /\ after[k].error = "Device not found"
            /\ call.pc = "awaitExecute" =>
                  /\ Len(after) = Len(entries)
                  /\ call.pending[1].actions = after

\* C4: executing a matched policy yields exactly one outcome per entry of its
\* device list, in list order; an entry whose device is not registered for the
\* user gets success = false and error "Device not found", the entries after
\* it are still executed, and success = true holds exactly for the entries
\* whose device is registered.
C4_OneOutcomePerDeviceEntry == [][\A c \in CallIds : C4_Step(c)]_vars

\* A result whose first action failed with "Device not found" and whose
\* second action succeeded.
C4_Witness ==
    \E c \in CallIds :
        /\ calls[c].pc = "awaitExecute"
        /\ Len(calls[c].pending[1].actions) = 2
        /\ ~ calls[c].pending[1].actions[1].success
        /\ calls[c].pending[1].actions[1].error = "Device not found"
        /\ calls[c].pending[1].actions[2].success

\* The keys sendDeviceCommand writes itself, after the parameters.
StampedKeys == {"lastCommand", "lastCommandTime"}

\* One step of call c in which sendDeviceCommand ran (the call is left at the
\* await of line 172): the state bag of the device after the step, against
\* the bag before it. The keys of the parameters that are not in `exempt` must
\* hold the parameter's value.
CommandEffect(c, exempt) ==
    LET call       == calls'[c]
        actionSpec == policies[call.userId][call.idx].action.devices[call.j]
        k          == findIndex(devices[call.userId], actionSpec.deviceId)
        old        == devices[call.userId][k]
        new        == devices'[call.userId][k]
    IN  (calls'[c] # calls[c] /\ call.pc = "awaitCommand") =>
            /\ k >= 1
            /\ \A key \in DOMAIN actionSpec.parameters \ exempt :
                  Has(new.state, key) /\ new.state[key] = actionSpec.parameters[key]
            /\ \A key \in DOMAIN old.state \ DOMAIN actionSpec.parameters :
                  /\ Has(new.state, key)
                  /\ key \notin StampedKeys => new.state[key] = old.state[key]
            /\ new.state.lastCommand = actionSpec.command
            /\ new.state.lastCommandTime = now
            /\ new.lastSyncedAt = now

\* The outcome recorded when the await of line 172 resumes is a success.
CommandOutcome(c) ==
    (calls[c].pc = "awaitCommand" /\ calls'[c] # calls[c]) =>
        /\ Len(OutcomesOf(calls'[c])) >= calls[c].j
        /\ OutcomesOf(calls'[c])[calls[c].j].success
        /\ ~ Has(OutcomesOf(calls'[c])[calls[c].j], "error")

\* C5 as stated: after a command on a registered device the state holds every
\* key of the parameters with the parameter's value, keeps every earlier key
\* the parameters do not name, has lastCommand equal to the command name, and
\* lastCommandTime and lastSyncedAt are the current time; the outcome is a
\* success.
C5_EveryParameterKeyHoldsItsValue ==
    [][\A c \in CallIds : CommandEffect(c, {}) /\ CommandOutcome(c)]_vars

\* C5, amended: as above for every key of the parameters other than
\* lastCommand and lastCommandTime; these two hold the command name and the
\* current time also when the parameters name them.
C5_ParametersMergedThenStamped ==
    [][\A c \in CallIds : CommandEffect(c, StampedKeys) /\ CommandOutcome(c)]_vars

\* "dim" ran on d1 of u1 with parameters {brightness: 20, lastCommand: "manual"}:
\* brightness is merged, the earlier key `on` is kept, lastCommand is "dim".
C5_Witness ==
    /\ Registered(devices, "u1", "d1")
    /\ LET d1 == devices["u1"][findIndex(devices["u1"], "d1")]
       IN  /\ Has(d1.state, "lastCommand") /\ d1.state.lastCommand = "dim"
           /\ d1.state.brightness = 20
           /\ Has(d1.state, "on") /\ d1.state.on = 1
    /\ \E c \in CallIds :
          /\ calls[c].pc = "awaitExecute"
          /\ calls[c].pending[1].policyName = "Relax Mode"
          /\ calls[c].pending[1].actions[1].success

\* C6: getDevices(userId) holds at most one record per deviceId; registering a
\* (userId, deviceId) that is registered replaces the whole record with the
\* new one, at the same position, the number of devices unchanged; registering
\* a new deviceId adds exactly one record at the end. Stated of registerDevice
\* applied to every reachable device map.
C6_OneRecordPerDeviceId ==
    /\ \A u \in Users : \A k \in 1..Len(getDevices(u)), m \in 1..Len(getDevices(u)) :
          getDevices(u)[k].deviceId = getDevices(u)[m].deviceId => k = m
    /\ \A device \in DeviceInputs :
          LET old   == devices[device.userId]
              new   == registerDevice(devices, device)[device.userId]
              where == {k \in 1..Len(old) : old[k].deviceId = device.deviceId}
          IN  /\ \A u \in Users \ {device.userId} :
                    registerDevice(devices, device)[u] = devices[u]
              /\ IF where # {}
                 THEN /\ Len(new) = Len(old)
                      /\ \A k \in 1..Len(old) :
                            new[k] = IF k \in where THEN device ELSE old[k]
                 ELSE new = Append(old, device)

\* u1 registered d2, then d1; a command wrote d2's state; d2 was registered
\* again: it is the first of two records and holds the state it was
\* registered with.
C6_Witness ==
    /\ Len(devices["u1"]) = 2
    /\ devices["u1"][1] \in DeviceInputs
    /\ devices["u1"][1].deviceId = "d2"
    /\ \E i \in 1..Len(orchestrationHistory) :
          \E k \in 1..Len(orchestrationHistory[i].actions) :
             /\ orchestrationHistory[i].actions[k].deviceId = "d2"
             /\ orchestrationHistory[i].actions[k].success

\* One step, as C7 sees it: a policy list changes only by one policy appended
\* at its end, and only one list changes.
C7_Step ==
    \A u \in Users :
        policies'[u] # policies[u] =>
            /\ \E policy \in PolicyInputs :
                  policy.userId = u /\ policies'[u] = Append(policies[u], policy)
            /\ \A v \in Users \ {u} : policies'[v] = policies[v]

\* createPolicy(policy) on the present policy map: the user's list is one
\* longer, ends with the policy and begins with the list as it was.
C7_Call ==
    \A policy \in PolicyInputs :
        LET old == getPolicies(policy.userId)
            new == createPolicy(policies, policy)[policy.userId]
        IN  /\ Len(new) = Len(old) + 1
            /\ new[Len(new)] = policy
            /\ SubSeq(new, 1, Len(old)) = old
            /\ \A v \in Users \ {policy.userId} :
                  createPolicy(policies, policy)[v] = policies[v]

\* C7: createPolicy always appends: each call grows getPolicies(policy.userId)
\* by exactly one entry at the end, also when a policy of the same id exists,
\* never changes or removes an existing policy and never changes another
\* user's list.
C7_CreatePolicyAppends == [][C7_Call /\ C7_Step]_vars

\* Two policies of the same id in one list.
C7_Witness ==
    \E u \in Users :
        /\ Len(getPolicies(u)) = 2
        /\ getPolicies(u)[1].id = getPolicies(u)[2].id
        /\ getPolicies(u)[1] # getPolicies(u)[2]

\* The limits getHistory is called with.
Limits == 0..3

\* limit's default value
DefaultLimit == 50

Min(a, b) == IF a <= b THEN a ELSE b

\* C8: for every limit >= 0, 0 and limits larger than the log included,
\* getHistory(userId, limit) returns at most limit entries, and they are the
\* last min(limit, n) entries of the log, oldest first.
C8_HistoryIsTheLastLimitEntries ==
    \A u \in Users, limit \in Limits :
        LET n == Len(orchestrationHistory)
        IN  /\ Len(getHistory(u, limit)) <= limit
            /\ getHistory(u, limit)
                  = SubSeq(orchestrationHistory, n - Min(limit, n) + 1, n)

\* userId has made an orchestrate call
HasOrchestrated(userId) ==
    \E c \in CallIds : calls[c].pc # "idle" /\ calls[c].userId = userId

\* C9: getHistory(userId) returns only results of orchestrate calls made for
\* that userId: it is empty for a user who never orchestrated.
C9_HistoryIsPartitionedByUser ==
    \A u \in Users : ~ HasOrchestrated(u) => getHistory(u, DefaultLimit) = <<>>

\* One step, as C10 sees it: the history is unchanged and so is what every
\* call has to return, or one result is appended to the history and to the
\* results of exactly one call.
C10_Step ==
    \/ /\ orchestrationHistory' = orchestrationHistory
       /\ \A c \in CallIds : calls'[c].results = calls[c].results
    \/ \E c \in CallIds :
          /\ Len(calls'[c].results) = Len(calls[c].results) + 1
          /\ SubSeq(calls'[c].results, 1, Len(calls[c].results)) = calls[c].results
          /\ orchestrationHistory'
                = Append(orchestrationHistory, calls'[c].results[Len(calls'[c].results)])
          /\ \A b \in CallIds \ {c} : calls'[b].results = calls[b].results

\* C10: the history is append-only: no operation removes, rewrites or reorders
\* an entry, and each orchestrate call extends the history by exactly the
\* results it returns, in the same order (by nothing when no policy matches).
C10_HistoryIsAppendOnly == [][C10_Step]_vars

\* Two calls that interleaved: each appended one result, the first call's
\* result after the second call's.
C10_Witness ==
    /\ MaxCalls >= 2
    /\ Len(orchestrationHistory) = 2
    /\ Len(calls[1].results) = 1
    /\ Len(calls[2].results) = 1
    /\ orchestrationHistory[1] = calls[2].results[1]
    /\ orchestrationHistory[2] = calls[1].results[1]
    /\ orchestrationHistory[1] # orchestrationHistory[2]

\* C11: with a non-decreasing clock the history is ordered by trigger time:
\* in every reachable state, the states reached by interleaved concurrent
\* orchestrate calls included, the triggeredAt of each history entry is <=
\* the triggeredAt of every later entry.
C11_HistoryOrderedByTriggerTime ==
    \A i \in 1..Len(orchestrationHistory), k \in 1..Len(orchestrationHistory) :
        i <= k => orchestrationHistory[i].triggeredAt <= orchestrationHistory[k].triggeredAt

\* Two calls that overlapped, with the clock moving between their triggers:
\* the call made second logged its result, triggered at 08:59, before the
\* call made first logged its own, triggered at 09:00.
C11_Witness ==
    /\ MaxCalls >= 2
    /\ Len(orchestrationHistory) >= 2
    /\ Len(calls[1].results) >= 1
    /\ Len(calls[2].results) >= 1
    /\ orchestrationHistory[1] = calls[2].results[1]
    /\ orchestrationHistory[2] = calls[1].results[1]
    /\ orchestrationHistory[1].triggeredAt < orchestrationHistory[2].triggeredAt

\* One step of call c, as C12 sees it: the step leaves the devices of every
\* other user as they were, what the call has returned or is about to return
\* are results of policies of its own user, and an outcome recorded in the
\* step for a device that is not registered for the call's user is
\* "Device not found".
C12_Step(c) ==
    LET before == IF calls[c].pc = "awaitCommand" THEN calls[c].actions ELSE <<>>
        call   == calls'[c]
        after  == OutcomesOf(call)
        u      == call.userId
    IN  calls'[c] # calls[c] =>
            /\ \A v \in Users \ {u} : devices'[v] = devices[v]
            /\ \A result \in {call.results[i] : i \in 1..Len(call.results)}
                              \cup {call.pending[i] : i \in 1..Len(call.pending)} :
                  \E k \in 1..Len(policies[u]) :
                     /\ policies[u][k].userId = u
                     /\ policies[u][k].id = result.policyId
                     /\ policies[u][k].policyName = result.policyName
            /\ call.pc \in {"awaitCommand", "awaitExecute"} =>
                  /\ policies[u][call.idx].userId = u
                  /\ \A k \in (Len(before) + 1)..Len(after) :
                        ~ Registered(devices, u, after[k].deviceId) =>
                            /\ ~ after[k].success
                            /\ Has(after[k], "error")
                            /\ after[k].error = "Device not found"

\* C12: device and policy state is partitioned by user: orchestrate(u, ...)
\* evaluates only u's policies and leaves every device record of every other
\* user unchanged, and a policy of u that names a deviceId registered only
\* under another user reports "Device not found" for that action.
C12_PartitionedByUser == [][\A c \in CallIds : C12_Step(c)]_vars

\* u2's policy named d2, registered under u1 only, and d1, registered under
\* both: "Device not found" for d2, d1 of u2 switched off, u1's records as
\* they were registered.
C12_Witness ==
    \E c \in CallIds :
        /\ calls[c].userId = "u2"
        /\ calls[c].pc = "awaitExecute"
        /\ Len(calls[c].pending[1].actions) = 2
        /\ calls[c].pending[1].actions[1].deviceId = "d2"
        /\ ~ calls[c].pending[1].actions[1].success
        /\ calls[c].pending[1].actions[1].error = "Device not found"
        /\ calls[c].pending[1].actions[2].success
        /\ Registered(devices, "u1", "d2")
        /\ Registered(devices, "u1", "d1")
        /\ ~ Registered(devices, "u2", "d2")
        /\ \A k \in 1..Len(devices["u1"]) : devices["u1"][k] \in DeviceInputs

\* policy is active and matches the call's inputs now
Runs(call, policy) ==
    /\ policy.isActive
    /\ evaluateCondition(policy.condition, call.emotionVector, call.frictionScore, now)

\* no action of the result succeeded
AllFailed(result) ==
    \A k \in 1..Len(result.actions) :
        /\ ~ result.actions[k].success
        /\ result.actions[k].error = "Device not found"

\* One step of call c, as C13 sees it: when the execution of a policy has
\* returned its result, whatever its outcomes, the result is added to what the
\* call returns and to the history, and the call goes on to the next policy
\* of the list that is active and matches, or returns when there is none.
C13_Step(c) ==
    LET old          == calls[c]
        new          == calls'[c]
        userPolicies == policies[old.userId]
    IN  (old.pc = "awaitExecute" /\ new # old) =>
            /\ new.results = Append(old.results, old.pending[1])
            /\ orchestrationHistory' = Append(orchestrationHistory, old.pending[1])
            /\ new.idx > old.idx
            /\ new.idx <= Len(userPolicies) + 1
            /\ \A k \in (old.idx + 1)..(new.idx - 1) : ~ Runs(old, userPolicies[k])
            /\ IF new.pc = "done"
               THEN new.idx = Len(userPolicies) + 1
               ELSE Runs(old, userPolicies[new.idx])

\* a call that was made and has not returned
InFlight(c) == calls[c].pc \in {"awaitCommand", "awaitExecute"}

\* A call that is suspended stays so until it returns, and a call that has
\* returned has returned for good: a call completes iff it does not stay
\* suspended for ever.
C13_Returns(c) ==
    /\ (InFlight(c) /\ ~ InFlight(c)') => calls'[c].pc = "done"
    /\ calls[c].pc = "done" => calls'[c] = calls[c]

\* C13: failure isolation is per policy: within one orchestrate call a policy
\* whose actions all fail with "Device not found" is still returned and logged
\* as a result and never prevents a later active policy of the user from
\* being evaluated and executed; every orchestrate call over a finite policy
\* list completes and returns a result list.
C13_FailureIsolatedPerPolicy ==
    /\ [][\A c \in CallIds : C13_Step(c) /\ C13_Returns(c)]_vars
    /\ \A c \in CallIds : []<>(~ InFlight(c))

\* A call that returned two results, both logged: every action of the first
\* failed, an action of the second succeeded.
C13_Witness ==
    \E c \in CallIds :
        /\ calls[c].pc = "done"
        /\ Len(calls[c].results) = 2
        /\ calls[c].results[1].actions # <<>>
        /\ AllFailed(calls[c].results[1])
        /\ \E k \in 1..Len(calls[c].results[2].actions) :
              calls[c].results[2].actions[k].success
        /\ \E i \in 1..Len(orchestrationHistory), k \in 1..Len(orchestrationHistory) :
              /\ i < k
              /\ orchestrationHistory[i] = calls[c].results[1]
              /\ orchestrationHistory[k] = calls[c].results[2]

\* call b was made for the user of call c and is not call c
Concurrent(c, b) ==
    /\ b # c
    /\ calls[b].pc # "idle"
    /\ calls[b].userId = calls'[c].userId

\* One step of call c in which a command ran (the call is left at the await of
\* line 172) while another call for the same user is under way or has
\* returned: the command is merged into the state bag as the commands before
\* it left it, whichever call ran them. A key the command writes holds the
\* command's value, every other key holds the value it had.
C14_Merge(c) ==
    LET call       == calls'[c]
        actionSpec == policies[call.userId][call.idx].action.devices[call.j]
        k          == findIndex(devices[call.userId], actionSpec.deviceId)
        old        == devices[call.userId][k].state
        new        == devices'[call.userId][k].state
        written    == [lastCommand |-> actionSpec.command, lastCommandTime |-> now]
    IN  (/\ calls'[c] # calls[c]
         /\ call.pc = "awaitCommand"
         /\ \E b \in CallIds : Concurrent(c, b)) =>
            /\ DOMAIN new = DOMAIN old \cup DOMAIN actionSpec.parameters \cup DOMAIN written
            /\ \A key \in DOMAIN new :
                  new[key] = IF key \in DOMAIN written THEN written[key]
                             ELSE IF key \in DOMAIN actionSpec.parameters
                                  THEN actionSpec.parameters[key]
                                  ELSE old[key]
            /\ \A m \in 1..Len(devices[call.userId]) :
                  m # k => devices'[call.userId][m] = devices[call.userId][m]

RECURSIVE ResultsReturned(_)
ResultsReturned(n) ==
    IF n = 0 THEN 0 ELSE Len(calls[n].results) + ResultsReturned(n - 1)

\* The history holds every result of every call, and nothing else.
AllResultsLogged ==
    /\ Len(orchestrationHistory) = ResultsReturned(MaxCalls)
    /\ \A c \in CallIds : \A i \in 1..Len(calls[c].results) :
          \E h \in 1..Len(orchestrationHistory) :
             orchestrationHistory[h] = calls[c].results[i]

\* C14: when two orchestrate calls for the same user run concurrently over the
\* same device, interleaving at their awaits, their state merges are
\* last-write-wins per key: the value of a key written by both calls is the
\* value written by the command that executed last, a key written by one call
\* only keeps that call's value (no update is lost), and both calls append all
\* of their results to the history.
C14_LastWriteWinsPerKey ==
    [][(\A c \in CallIds : C14_Merge(c)) /\ AllResultsLogged']_vars

\* Two calls for u1, both suspended after a command on d1: the first ran "dim"
\* (brightness 20), then the second ran "turn_on". lastCommand, written by
\* both, is "turn_on"; brightness, written by the first call only, is 20.
C14_Witness ==
    /\ MaxCalls >= 2
    /\ calls[1].userId = "u1" /\ calls[2].userId = "u1"
    /\ calls[1].pc = "awaitCommand" /\ calls[2].pc = "awaitCommand"
    /\ policies["u1"][calls[1].idx].action.devices[calls[1].j].command = "dim"
    /\ policies["u1"][calls[2].idx].action.devices[calls[2].j].command = "turn_on"
    /\ calls[2].results = <<>> /\ calls[2].idx = 1
    /\ Registered(devices, "u1", "d1")
    /\ LET d1 == devices["u1"][findIndex(devices["u1"], "d1")]
       IN  /\ d1.state.lastCommand = "turn_on"
           /\ d1.state.brightness = 20
           /\ d1.state.on = 1

(***************************************************************************)
(* The time-of-day clause: properties of SpecEval                          *)
(***************************************************************************)

\* a <= b in lexicographic order of code units
RECURSIVE StrLe(_, _)
StrLe(a, b) ==
    IF a = <<>> THEN TRUE
    ELSE IF b = <<>> THEN FALSE
    ELSE IF Head(a) < Head(b) THEN TRUE
    ELSE IF Head(a) > Head(b) THEN FALSE
    ELSE StrLe(Tail(a), Tail(b))

\* The digits of n, most significant first, without padding.
RECURSIVE Digits(_)
Digits(n) == IF n < 10 THEN <<48 + n>> ELSE Digits(n \div 10) \o <<48 + (n % 10)>>

\* The local time of day at clock t as a zero-padded HH:MM string.
PaddedTime(t) ==
    LET h  == (t \div 60) % 24
        m  == t % 60
        hh == IF h < 10 THEN <<48>> \o Digits(h) ELSE Digits(h)
        mm == IF m < 10 THEN <<48>> \o Digits(m) ELSE Digits(m)
    IN  hh \o <<58>> \o mm

\* C15: the time-of-day clause passes iff the current local time as a
\* zero-padded HH:MM string satisfies start <= now <= end in lexicographic
\* string order, both ends inclusive; so a window that crosses midnight
\* (start > end) matches at no time of day. Stated on the conditions that hold
\* a time clause only, where the verdict of evaluateCondition is the verdict
\* of that clause.
C15_TimeWindowIsLexicographicAndInclusive ==
    (evalCall.pc = "returned" /\ DOMAIN evalCall.condition = {"timeOfDay"}) =>
        LET start == evalCall.condition.timeOfDay.start
            end   == evalCall.condition.timeOfDay.end
        IN  /\ evalCall.result <=>
                  (StrLe(start, PaddedTime(now)) /\ StrLe(PaddedTime(now), end))
            /\ (~ StrLe(start, end)) =>
                  /\ ~ evalCall.result
                  /\ \A t \in 0..(24 * 60 - 1) : ~ timeCheckPasses(evalCall.condition, t)

\* The window 09:00-17:00 evaluated at 17:00: the clause passes at its end.
C15_Witness ==
    /\ evalCall.pc = "returned"
    /\ DOMAIN evalCall.condition = {"timeOfDay"}
    /\ evalCall.condition.timeOfDay.end = PaddedTime(now)
    /\ evalCall.result

\* The window 22:00-06:00, which crosses midnight, evaluated at 03:00: the
\* clause fails.
C15_MidnightWitness ==
    /\ evalCall.pc = "returned"
    /\ DOMAIN evalCall.condition = {"timeOfDay"}
    /\ ~ StrLe(evalCall.condition.timeOfDay.start, evalCall.condition.timeOfDay.end)
    /\ now % (24 * 60) = 3 * 60
    /\ ~ evalCall.result

(***************************************************************************)
(* The decision engine: properties of SpecDecide                           *)
(***************************************************************************)

\* the fraction p is smaller than the fraction q
Less(p, q) == p.num * q.den < q.num * p.den

Thousandths(n) == [num |-> n, den |-> 1000]

\* C16: for every observation o, collapseQubit(o) is FALSE iff o < 0.33, TRUE
\* iff 0.33 <= o < 0.66 and SUPERPOSITION iff o >= 0.66, with 0.33 and 0.66 as
\* exact cut points (0.329 -> FALSE, 0.33 -> TRUE, 0.659 -> TRUE,
\* 0.66 -> SUPERPOSITION). Stated of every observation decide has drawn and
\* of the trit it was collapsed to.
C16_CollapseCutPoints ==
    /\ \A i \in 1..Len(decision.observations) :
          LET o    == decision.observations[i]
              trit == decision.trits[i]
          IN  /\ trit = "FALSE" <=> Less(o, Thousandths(330))
              /\ trit = "TRUE" <=> (~ Less(o, Thousandths(330)) /\ Less(o, Thousandths(660)))
              /\ trit = "SUPERPOSITION" <=> ~ Less(o, Thousandths(660))
    /\ decision.count > 0 =>
          /\ collapseQubit(Thousandths(329)) = "FALSE"
          /\ collapseQubit(Thousandths(330)) = "TRUE"
          /\ collapseQubit(Thousandths(659)) = "TRUE"
          /\ collapseQubit(Thousandths(660)) = "SUPERPOSITION"

\* decide drew 0.329, 0.33 and 0.66 and collapsed them to FALSE, TRUE and
\* SUPERPOSITION.
C16_Witness ==
    /\ Len(decision.observations) = 3
    /\ decision.observations[1] = Thousandths(329) /\ decision.trits[1] = "FALSE"
    /\ decision.observations[2] = Thousandths(330) /\ decision.trits[2] = "TRUE"
    /\ decision.observations[3] = Thousandths(660) /\ decision.trits[3] = "SUPERPOSITION"

\* The trits, first in priority first.
Priority == <<"TRUE", "FALSE", "SUPERPOSITION">>

\* The number of drawn trits that are `trit`.
Drawn(trit) == Cardinality({i \in 1..Len(decision.trits) : decision.trits[i] = trit})

\* C17: decide's triState is the trit with the highest count among the drawn
\* trits, and on equal highest counts the tie is broken by the fixed priority
\* TRUE > FALSE > SUPERPOSITION (counts TRUE = 1, FALSE = 1 give TRUE;
\* FALSE = 1, SUPERPOSITION = 1 give FALSE).
C17_MajorityWithFixedPriority ==
    decision.count > 0 =>
        \E k \in 1..3 :
            /\ decision.result.triState = Priority[k]
            /\ \A m \in 1..3 : Drawn(Priority[m]) <= Drawn(Priority[k])
            /\ \A m \in 1..(k - 1) : Drawn(Priority[m]) < Drawn(Priority[k])

\* One FALSE and one SUPERPOSITION were drawn, SUPERPOSITION first: the
\* triState is FALSE.
C17_Witness ==
    /\ decision.count > 0
    /\ decision.trits = <<"SUPERPOSITION", "FALSE">>
    /\ decision.result.triState = "FALSE"

\* Entanglement as the specification words it.
Entangled(context) ==
    /\ Has(context, "multiDeviceContext")
    /\ context.multiDeviceContext = TRUE
    /\ Has(context, "deviceIds")
    /\ Len(context.deviceIds) >= 2

\* C18: checkEntanglement(context) is true iff multiDeviceContext is exactly
\* true and deviceIds is present with more than one member; it is false when
\* multiDeviceContext is false or undefined, when deviceIds is undefined and
\* when deviceIds has zero or one member.
C18_EntanglementIffMultiDeviceAndTwoIds ==
    decision.count > 0 =>
        LET context == decision.context
        IN  /\ checkEntanglement(context) <=> Entangled(context)
            /\ ~ Has(context, "multiDeviceContext") => ~ checkEntanglement(context)
            /\ (Has(context, "multiDeviceContext") /\ ~ context.multiDeviceContext)
                  => ~ checkEntanglement(context)
            /\ ~ Has(context, "deviceIds") => ~ checkEntanglement(context)
            /\ (Has(context, "deviceIds") /\ Len(context.deviceIds) <= 1)
                  => ~ checkEntanglement(context)

\* decide was called with multiDeviceContext true and one device id:
\* checkEntanglement is false.
C18_Witness ==
    /\ decision.count > 0
    /\ Has(decision.context, "multiDeviceContext")
    /\ decision.context.multiDeviceContext
    /\ Has(decision.context, "deviceIds")
    /\ Len(decision.context.deviceIds) = 1
    /\ ~ checkEntanglement(decision.context)

\* C19: decide's action is a function of (entanglement, majority trit) only:
\* majority TRUE with entanglement gives ORCHESTRATE_SYNC, majority TRUE
\* without entanglement gives PROCEED_LOCAL, majority FALSE gives SKIP_LOCAL
\* and majority SUPERPOSITION gives DEFER_UNTIL_COLLAPSE, whatever the
\* entanglement.
C19_ActionFollowsRoutingTable ==
    decision.count > 0 =>
        LET result == decision.result
        IN  /\ (result.triState = "TRUE" /\ Entangled(decision.context))
                  => result.action = "ORCHESTRATE_SYNC"
            /\ (result.triState = "TRUE" /\ ~ Entangled(decision.context))
                  => result.action = "PROCEED_LOCAL"
            /\ result.triState = "FALSE" => result.action = "SKIP_LOCAL"
            /\ result.triState = "SUPERPOSITION" => result.action = "DEFER_UNTIL_COLLAPSE"

\* An entangled context whose majority is SUPERPOSITION: the action is
\* DEFER_UNTIL_COLLAPSE.
C19_Witness ==
    /\ decision.count > 0
    /\ Entangled(decision.context)
    /\ decision.result.triState = "SUPERPOSITION"
    /\ decision.result.action = "DEFER_UNTIL_COLLAPSE"

\* C20: decide sets quatState to ENTANGLEMENT only in the row
\* entanglement = true and majority = TRUE (action ORCHESTRATE_SYNC); for a
\* result with action PROCEED_LOCAL, SKIP_LOCAL or DEFER_UNTIL_COLLAPSE the
\* quatState is absent, also when the context is entangled.
C20_QuatStateOnlyWithOrchestrateSync ==
    decision.count > 0 =>
        LET result == decision.result
        IN  /\ result.action = "ORCHESTRATE_SYNC" =>
                  (Has(result, "quatState") /\ result.quatState = "ENTANGLEMENT")
            /\ result.action \in {"PROCEED_LOCAL", "SKIP_LOCAL", "DEFER_UNTIL_COLLAPSE"} =>
                  ~ Has(result, "quatState")

\* C21: for every non-empty feature vector, decide's confidence equals
\* (count of the majority trit) / (number of trits drawn) and lies in [0, 1].
C21_ConfidenceIsMajorityShare ==
    (decision.count > 0 /\ decision.context.features # <<>>) =>
        LET confidence == decision.result.confidence
        IN  /\ Len(decision.trits) = Len(decision.context.features)
            /\ confidence.den = Len(decision.trits)
            /\ confidence.num = Drawn(decision.result.triState)
            /\ confidence.den > 0
            /\ 0 <= confidence.num /\ confidence.num <= confidence.den

\* Three trits were drawn, two of them the majority: the confidence is 2/3.
C21_Witness ==
    /\ decision.count > 0
    /\ Len(decision.context.features) = 3
    /\ Drawn(decision.result.triState) = 2
    /\ decision.result.confidence = [num |-> 2, den |-> 3]

\* the fraction is a number (not the NaN of 0 / 0)
IsNumber(fraction) == fraction.den # 0

\* C22: for an empty feature vector decide returns a result with confidence 0
\* and a default majority trit, never an undefined or NaN confidence.
C22_EmptyFeaturesGiveConfidenceZero ==
    (decision.count > 0 /\ decision.context.features = <<>>) =>
        /\ Has(decision.result, "confidence")
        /\ IsNumber(decision.result.confidence)
        /\ decision.result.confidence.num = 0
        /\ decision.result.triState \in {"TRUE", "FALSE", "SUPERPOSITION"}

\* The two contexts have the same number of features and the same
\* multiDeviceContext and deviceIds.
SameShape(a, b) ==
    /\ Len(a.features) = Len(b.features)
    /\ Has(a, "multiDeviceContext") = Has(b, "multiDeviceContext")
    /\ Has(a, "multiDeviceContext") => a.multiDeviceContext = b.multiDeviceContext
    /\ Has(a, "deviceIds") = Has(b, "deviceIds")
    /\ Has(a, "deviceIds") => a.deviceIds = b.deviceIds

\* What the caller sees of a result, quatState: undefined being no quatState.
Outcome(result) ==
    [action |-> result.action, triState |-> result.triState,
     confidence |-> result.confidence,
     quatState |-> IF Has(result, "quatState") THEN result.quatState ELSE "undefined"]

\* The seed after n calls of the seeded generator.
RECURSIVE SeedAfter(_, _)
SeedAfter(seed, n) == IF n = 0 THEN seed ELSE SeedAfter(nextSeed(seed), n - 1)

\* One decide call, as C23 sees it: it draws one observation for each feature
\* (a seeded generator is advanced that many times), and every context of the
\* same shape, called in the same generator state, gets the same draws and
\* the same result.
C23_Step ==
    decision' # decision =>
        LET context == decision'.context
            n       == Len(context.features)
        IN  /\ Len(decision'.observations) = n
            /\ rng.seeded => rng'.seed = SeedAfter(rng.seed, n)
            /\ \A other \in ContextInputs :
                  SameShape(other, context) =>
                      /\ Draws(rng, Len(other.features)) = Draws(rng, n)
                      /\ Outcome(decide(other, decision'.observations))
                            = Outcome(decision'.result)

\* C23: decide draws exactly one observation per feature and its result does
\* not depend on the feature values: for two contexts with the same number of
\* features and the same multiDeviceContext and deviceIds, started from the
\* same generator state, decide returns the same action, triState, quatState
\* and confidence.
C23_ResultIgnoresFeatureValues == [][C23_Step]_vars

\* decide was called with the features 0.1, 0.5, 0.9; the context with the
\* features 0.7, 0.7, 0.7 and the same flags gets the same result from the
\* same observations.
C23_Witness ==
    /\ decision.count > 0
    /\ decision.context.features = <<10, 50, 90>>
    /\ \E other \in ContextInputs :
          /\ other.features = <<70, 70, 70>>
          /\ SameShape(other, decision.context)
          /\ Outcome(decide(other, decision.observations)) = Outcome(decision.result)

\* (state * 9301 + 49297) mod 233280, the product taken as
\* state * 9000 + state * 301.
Lcg(state) == (((state * 9000) % 233280) + state * 301 + 49297) % 233280

\* The states the seeded generator goes through in n calls that start in
\* `state`.
RECURSIVE LcgStates(_, _)
LcgStates(state, n) ==
    IF n = 0 THEN <<>> ELSE <<Lcg(state)>> \o LcgStates(Lcg(state), n - 1)

\* One decide call on a seeded engine, as C24 sees it: the observations, the
\* state the generator is left in and the result are determined by the state
\* the generator was in and by the context.
C24_Step ==
    (rng.seeded /\ decision' # decision) =>
        LET context == decision'.context
            n       == Len(context.features)
            states  == LcgStates(rng.seed, n)
        IN  /\ rng'.seeded
            /\ Len(decision'.observations) = n
            /\ \A i \in 1..n :
                  /\ decision'.observations[i] = [num |-> states[i], den |-> 233280]
                  /\ 0 <= decision'.observations[i].num
                  /\ decision'.observations[i].num < decision'.observations[i].den
            /\ rng'.seed = IF n = 0 THEN rng.seed ELSE states[n]
            /\ Cardinality(Draws(rng, n)) = 1
            /\ decision'.result = decide(context, decision'.observations)

\* C24: a seeded engine is reproducible: two engines constructed with the
\* same seed return identical results for the same sequence of decide calls,
\* the generator state being carried from one call to the next
\* (state' = (state * 9301 + 49297) mod 233280, observation = state' / 233280,
\* which lies in [0, 1) for every non-negative integer seed).
C24_SeededEngineIsReproducible == [][C24_Step]_vars

\* The second decide call of a seeded engine, with three features: the
\* generator is left in the state of its last observation.
C24_Witness ==
    /\ rng.seeded
    /\ decision.count = 2
    /\ Len(decision.observations) = 3
    /\ rng.seed = decision.observations[3].num
    /\ rng.seed \notin SeedInputs


(***************************************************************************)
(* The friction score calculator (quaternaryLogic.ts, lines 145-173).      *)
(*                                                                         *)
(* The four rates and the two emotions are integer hundredths. freeRam is  *)
(* in hundredths of 4 GiB (4 * 1024 * 1024 * 1024 bytes is 100), so        *)
(* 1 - freeRam / 4GiB is 100 - freeRam hundredths. A product of a          *)
(* hundredth by 0.5 or 0.3 is a number of thousandths, and a product of a  *)
(* thousandth by 0.2 is a number of five-thousandths: the friction score   *)
(* is an integer number of five-thousandths (1 is 5000).                   *)
(***************************************************************************)

AtLeast(low, x) == IF x < low THEN low ELSE x

AtMost(high, x) == IF x > high THEN high ELSE x

\* Line 164: (metrics.emotionVector.rushed || 0), in hundredths.
OrZero(emotionVector, emotion) ==
    IF Has(emotionVector, emotion) THEN emotionVector[emotion] ELSE 0

\* Lines 162-165, in thousandths.
emotionFriction(metrics) ==
    IF Has(metrics, "emotionVector")
    THEN OrZero(metrics.emotionVector, "rushed") * 5
         + OrZero(metrics.emotionVector, "tired") * 3
    ELSE 0

\* Line 157, in hundredths.
ramFriction(metrics) == AtLeast(0, 100 - metrics.freeRam)

\* Lines 168-169, in five-thousandths.
frictionScore(metrics) ==
    metrics.batteryEntropy * 10 + ramFriction(metrics) * 10
    + metrics.behavioralAuthErrorRate * 10 + metrics.typingErrorRate * 10
    + emotionFriction(metrics)

calculate_Unclamped(metrics) == frictionScore(metrics)

\* FrictionScoreCalculator.calculate(metrics), in five-thousandths.
calculate(metrics) == AtMost(5000, AtLeast(0, frictionScore(metrics)))

\* The rates a caller passes: the documented range 0-1 and values outside it.
RateInputs == {-50, 0, 30, 100, 500}

\* 0, 2 GiB, 3 GiB, 4 GiB and 8 GiB free.
FreeRamInputs == {0, 50, 75, 100, 200}

EmotionVectorInputs ==
    { <<>>,
      [rushed |-> 60, tired |-> 20],
      [rushed |-> 80, tired |-> 20],
      [rushed |-> 60, tired |-> 90],
      [rushed |-> 100],
      [tired |-> 100],
      [rushed |-> 400, tired |-> 400],
      [rushed |-> -100, tired |-> 0] }

MetricsInputs ==
    LET rates == { [batteryEntropy |-> b, freeRam |-> m,
                    behavioralAuthErrorRate |-> a, typingErrorRate |-> t] :
                   b \in RateInputs, m \in FreeRamInputs,
                   a \in {0, 10, 100}, t \in {0, 5, 100} }
    IN  rates \cup { Put(metrics, "emotionVector", emotionVector) :
                     metrics \in rates, emotionVector \in EmotionVectorInputs }

InitFriction ==
    /\ devices = [u \in Users |-> <<>>]
    /\ policies = [u \in Users |-> <<>>]
    /\ orchestrationHistory = <<>>
    /\ calls = [c \in CallIds |-> IdleCall]
    /\ jobs = <<>>
    /\ now = FirstInstant
    /\ evalCall = NoEval
    /\ rng = NoEngine
    /\ decision = NoDecision
    /\ friction \in { [pc |-> "called", metrics |-> metrics, result |-> 0] :
                      metrics \in MetricsInputs }
    /\ time = FirstTime
    /\ ProjectionIdle
    /\ EchoIdle

\* FrictionScoreCalculator.calculate(metrics) runs and returns.
Calculate ==
    /\ friction.pc = "called"
    /\ friction' = [friction EXCEPT !.pc = "returned",
                                    !.result = calculate(friction.metrics)]
    /\ UNCHANGED <<orchestratorVars, quantumVars, time, projectionVars, echoVars>>

NextFriction == Calculate

SpecFriction == InitFriction /\ [][NextFriction]_vars


(***************************************************************************)
(* Claims about the friction score calculator.                             *)
(***************************************************************************)

\* The six inputs of the score; an emotion that is not given is 0.
Input(metrics, field) ==
    CASE field \in {"rushed", "tired"} ->
            IF "emotionVector" \in DOMAIN metrics
               /\ field \in DOMAIN metrics.emotionVector
            THEN metrics.emotionVector[field]
            ELSE 0
      [] OTHER -> metrics[field]

InputNames ==
    {"batteryEntropy", "freeRam", "behavioralAuthErrorRate", "typingErrorRate",
     "rushed", "tired"}

\* `more` is `metrics` with the one input `field` raised.
RaisedIn(field, metrics, more) ==
    /\ Input(more, field) > Input(metrics, field)
    /\ \A other \in InputNames \ {field} : Input(more, other) = Input(metrics, other)

\* All-zero rates, 4 GiB free, no emotion vector.
Perfect(metrics) ==
    /\ metrics.batteryEntropy = 0
    /\ metrics.behavioralAuthErrorRate = 0
    /\ metrics.typingErrorRate = 0
    /\ metrics.freeRam = 100
    /\ "emotionVector" \notin DOMAIN metrics

\* C25: calculate returns a score between 0 and 1; it returns exactly 0 for
\* all-zero rates with 4 GiB free and no emotion vector; raising one of
\* batteryEntropy, behavioralAuthErrorRate, typingErrorRate, rushed and tired
\* with the other inputs fixed never lowers the score, and raising the free
\* memory never raises it.
C25_ScoreInUnitIntervalAndMonotone ==
    friction.pc = "returned" =>
        /\ 0 <= friction.result /\ friction.result <= 5000
        /\ Perfect(friction.metrics) => friction.result = 0
        /\ \A more \in MetricsInputs :
              /\ \A field \in InputNames \ {"freeRam"} :
                    RaisedIn(field, friction.metrics, more)
                        => calculate(more) >= friction.result
              /\ RaisedIn("freeRam", friction.metrics, more)
                    => calculate(more) <= friction.result

\* A call whose unclamped weighted sum is above 1 has returned 1, and raising
\* its free memory gives a call whose score is strictly lower.
C25_Witness ==
    /\ friction.pc = "returned"
    /\ friction.result = 5000
    /\ friction.metrics.batteryEntropy = 500
    /\ \E more \in MetricsInputs :
          /\ RaisedIn("freeRam", friction.metrics, more)
          /\ calculate(more) < friction.result

\* x clamped to [0, 1], with 1 written as `one`.
Clamp01(x, one) == IF x < 0 THEN 0 ELSE IF x > one THEN one ELSE x

\* C26: the score is clamp01(0.2 * (b + m + a + t + e)) where each of the five
\* sub-scores is clamped to [0, 1] on its own before the sum, so that one
\* out-of-range input contributes at most 0.2. (The sub-scores in thousandths;
\* 0.2 times a number of thousandths is that number of five-thousandths.)
C26_SubScoresClampedBeforeAveraging ==
    friction.pc = "returned" =>
        LET metrics == friction.metrics
            b == Clamp01(10 * metrics.batteryEntropy, 1000)
            m == Clamp01(1000 - 10 * metrics.freeRam, 1000)
            a == Clamp01(10 * metrics.behavioralAuthErrorRate, 1000)
            t == Clamp01(10 * metrics.typingErrorRate, 1000)
            e == Clamp01(5 * Input(metrics, "rushed") + 3 * Input(metrics, "tired"), 1000)
        IN  friction.result = Clamp01(b + m + a + t + e, 5000)


(***************************************************************************)
(* The Intent Projection engine (intentProjection.ts, lines 42-342).       *)
(*                                                                         *)
(* context.currentTime and the calendar times are minutes of local time,   *)
(* as `now` is; `time` is Date.now() in its own ticks (milliseconds). The  *)
(* string `draft-${Date.now()}-1` is <<"draft", time, 1>> and the string   *)
(* `MEETING_SOON: ${title}` is <<"MEETING_SOON", title>>. A draft is one   *)
(* object that the drafts list of its user and the prediction that         *)
(* suggested it both hold: a prediction holds the positions of its drafts  *)
(* in that list, which never shrinks. The text of a draft (recipient,      *)
(* body, communicationType, confidence) is written once from the kind of   *)
(* the prediction and the communication style and is not modelled.         *)
(***************************************************************************)

\* map.get(key) || []
GetOrEmpty(map, key) == IF Has(map, key) THEN map[key] ELSE <<>>

\* Lines 89-131.
analyzeContext(context) ==
    LET hour == getHours(context.currentTime)
    IN  IF /\ Has(context, "calendar")
           /\ Len(context.calendar) > 0
           /\ context.calendar[1].time - context.currentTime < 15
        THEN <<"MEETING_SOON", context.calendar[1].title>>
        ELSE IF /\ Has(context, "emotionVector")
                /\ Has(context.emotionVector, "rushed")
                /\ context.emotionVector.rushed > 60
        THEN <<"USER_RUSHED">>
        ELSE IF /\ Has(context, "emotionVector")
                /\ Has(context.emotionVector, "tired")
                /\ context.emotionVector.tired > 70
        THEN <<"USER_TIRED">>
        ELSE IF hour >= 17 /\ hour < 19 THEN <<"LEAVING_WORK">>
        ELSE IF hour >= 8 /\ hour < 9 THEN <<"MORNING_COMMUTE">>
        ELSE <<"ROUTINE_ACTIVITY">>

\* Lines 136-151, in hundredths.
calculateConfidence(context) ==
    AtMost(100,
           50 + (IF Has(context, "calendar") /\ Len(context.calendar) > 0 THEN 20 ELSE 0)
              + (IF Has(context, "emotionVector") THEN 15 ELSE 0)
              + (IF Len(context.recentMessages) > 0 THEN 10 ELSE 0))

\* Lines 239-251, in minutes.
estimateTimeToAction(predictedAction) ==
    CASE predictedAction[1] = "MEETING_SOON" -> 10
      [] predictedAction = <<"USER_RUSHED">> -> 5
      [] predictedAction = <<"LEAVING_WORK">> -> 30
      [] OTHER -> 60

\* Lines 256-270: the reasons that are joined with '; '.
generateReasoning(context) ==
    LET reasons ==
            (IF Has(context, "calendar") /\ Len(context.calendar) > 0
             THEN <<"Upcoming calendar event detected">> ELSE <<>>)
            \o (IF /\ Has(context, "emotionVector")
                   /\ Has(context.emotionVector, "rushed")
                   /\ context.emotionVector.rushed > 60
                THEN <<"User emotion vector shows rushed state">> ELSE <<>>)
            \o (IF Has(context, "frictionScore") /\ context.frictionScore > 50
                THEN <<"High friction score indicates time pressure">> ELSE <<>>)
    IN  IF reasons = <<>> THEN <<"Based on contextual analysis">> ELSE reasons

\* Lines 161-203: the drafts generated for a predicted action at Date.now() = t.
newDrafts(userId, predictedAction, t) ==
    LET draft(n) == [id              |-> <<"draft", t, n>>,
                     userId          |-> userId,
                     status          |-> "DRAFT",
                     predictedIntent |-> predictedAction,
                     timestamp       |-> t]
    IN  IF predictedAction[1] = "MEETING_SOON" THEN <<draft(1)>>
        ELSE IF predictedAction = <<"USER_RUSHED">> THEN <<draft(2)>>
        ELSE IF predictedAction = <<"LEAVING_WORK">> THEN <<draft(3)>>
        ELSE <<>>

\* Lines 205-209 of generateDrafts: this.drafts after the call.
generateDrafts(map, userId, predictedAction, t) ==
    Put(map, userId, GetOrEmpty(map, userId) \o newDrafts(userId, predictedAction, t))

\* userDrafts.find((d) => d.id === draftId): the position of the first draft
\* with that id, 0 when there is none.
find(userDrafts, draftId) ==
    IF \E k \in 1..Len(userDrafts) : userDrafts[k].id = draftId
    THEN CHOOSE k \in 1..Len(userDrafts) :
            /\ userDrafts[k].id = draftId
            /\ \A m \in 1..(k - 1) : userDrafts[m].id # draftId
    ELSE 0

\* sendDraft looks the id up in the drafts of every user.
sendDraft_AnyUser(map, userId, draftId, t) ==
    [u \in DOMAIN map |->
        [k \in 1..Len(map[u]) |->
            IF k = find(map[u], draftId)
            THEN Put([map[u][k] EXCEPT !.status = "SENT"], "sentAt", t)
            ELSE map[u][k]]]

\* Lines 275-290: this.drafts after sendDraft(userId, draftId) at Date.now() = t.
sendDraft(map, userId, draftId, t) ==
    LET k == find(GetOrEmpty(map, userId), draftId)
    IN  IF k = 0 THEN map
        ELSE [map EXCEPT ![userId][k] =
                 Put([map[userId][k] EXCEPT !.status = "SENT"], "sentAt", t)]

\* Lines 295-305: this.drafts after discardDraft(userId, draftId).
discardDraft(map, userId, draftId) ==
    LET k == find(GetOrEmpty(map, userId), draftId)
    IN  IF k = 0 THEN map
        ELSE [map EXCEPT ![userId][k].status = "DISCARDED"]

\* Lines 310-313.
getPendingDrafts(map, userId) ==
    SelectSeq(GetOrEmpty(map, userId), LAMBDA d : d.status = "DRAFT")

\* The predictAndDraft calls that are started.
MaxPredictions == 2

\* The readings of Date.now() are FirstTime..MaxTime.
MaxTime == 2

MeetingInTen(t) ==
    [currentTime |-> t, recentMessages |-> <<>>,
     calendar |-> <<[title |-> "Meeting", time |-> t + 10]>>]

\* The contexts that are passed: a meeting in 10 minutes, a meeting in an hour
\* with a rushed user, a tired user under friction, the end of the working
\* day, the middle of the day with messages.
PredictionContexts ==
    { MeetingInTen(12 * 60),
      [currentTime |-> 12 * 60, recentMessages |-> <<>>,
       calendar |-> <<[title |-> "Review", time |-> 13 * 60]>>,
       emotionVector |-> [rushed |-> 80]],
      [currentTime |-> 12 * 60, recentMessages |-> <<>>,
       emotionVector |-> [tired |-> 90], frictionScore |-> 60],
      [currentTime |-> 17 * 60 + 30, recentMessages |-> <<>>],
      [currentTime |-> 12 * 60, recentMessages |-> <<"message 1">>] }

\* The ids that are passed to sendDraft and discardDraft: the ids of the
\* drafts that exist, of any user, and an id that no draft has.
DraftIdInputs ==
    UNION { { drafts[u][k].id : k \in 1..Len(drafts[u]) } : u \in DOMAIN drafts }
    \cup {<<"non-existent-draft">>}

InitDrafts ==
    /\ devices = [u \in Users |-> <<>>]
    /\ policies = [u \in Users |-> <<>>]
    /\ orchestrationHistory = <<>>
    /\ calls = [c \in CallIds |-> IdleCall]
    /\ jobs = <<>>
    /\ now = FirstInstant
    /\ evalCall = NoEval
    /\ rng = NoEngine
    /\ decision = NoDecision
    /\ friction = NoFriction
    /\ time = FirstTime
    /\ ProjectionIdle
    /\ EchoIdle

\* The number of predictAndDraft calls that have been started.
Started ==
    Len(awaiting)
    + Cardinality(UNION { { <<u, k>> : k \in 1..Len(predictions[u]) } :
                          u \in DOMAIN predictions })

\* predictAndDraft(userId, context), lines 62-66: up to the await. generateDrafts
\* has no await of its own, so the drafts are stored before the call suspends.
PredictAndDraft(userId, context) ==
    /\ Started < MaxPredictions
    /\ LET predictedAction == analyzeContext(context)
           before == Len(GetOrEmpty(drafts, userId))
           stored == generateDrafts(drafts, userId, predictedAction, time)
       IN  /\ drafts' = stored
           /\ awaiting' = Append(awaiting,
                 [userId                  |-> userId,
                  context                 |-> context,
                  predictedAction         |-> predictedAction,
                  confidence              |-> calculateConfidence(context),
                  suggestedCommunications |->
                      [k \in 1..(Len(stored[userId]) - before) |-> before + k]])
           /\ reply' = [op |-> "predictAndDraft", userId |-> userId, pc |-> "await"]
    /\ UNCHANGED <<orchestratorVars, quantumVars, friction, time, predictions, echoVars>>

\* predictAndDraft, lines 68-83: the continuation of the await.
ResumePredict ==
    /\ awaiting # <<>>
    /\ LET call == Head(awaiting)
           prediction ==
               [userId                  |-> call.userId,
                predictedAction         |-> call.predictedAction,
                confidence              |-> call.confidence,
                timeToAction            |-> estimateTimeToAction(call.predictedAction),
                reasoning               |-> generateReasoning(call.context),
                suggestedCommunications |-> call.suggestedCommunications]
       IN  /\ predictions' = Put(predictions, call.userId,
                                 Append(GetOrEmpty(predictions, call.userId), prediction))
           /\ reply' = [op |-> "predictAndDraft", userId |-> call.userId,
                        pc |-> "returned", result |-> prediction]
    /\ awaiting' = Tail(awaiting)
    /\ UNCHANGED <<orchestratorVars, quantumVars, friction, time, drafts, echoVars>>

\* sendDraft(userId, draftId): the body has no await and runs in the call.
SendDraft(userId, draftId) ==
    /\ drafts' = sendDraft(drafts, userId, draftId, time)
    /\ reply' = [op |-> "sendDraft", userId |-> userId, draftId |-> draftId,
                 result |-> find(GetOrEmpty(drafts, userId), draftId) # 0]
    /\ UNCHANGED <<orchestratorVars, quantumVars, friction, time, predictions, awaiting,
                   echoVars>>

\* discardDraft(userId, draftId)
DiscardDraft(userId, draftId) ==
    /\ drafts' = discardDraft(drafts, userId, draftId)
    /\ reply' = [op |-> "discardDraft", userId |-> userId, draftId |-> draftId,
                 result |-> find(GetOrEmpty(drafts, userId), draftId) # 0]
    /\ UNCHANGED <<orchestratorVars, quantumVars, friction, time, predictions, awaiting,
                   echoVars>>

\* getPendingDrafts(userId)
GetPendingDrafts(userId) ==
    /\ reply' = [op |-> "getPendingDrafts", userId |-> userId,
                 result |-> getPendingDrafts(drafts, userId)]
    /\ UNCHANGED <<orchestratorVars, quantumVars, friction, time, drafts, predictions,
                   awaiting, echoVars>>

\* Date.now() advances.
Elapse ==
    /\ time < MaxTime
    /\ time' = time + 1
    /\ UNCHANGED <<orchestratorVars, quantumVars, friction, projectionVars, echoVars>>

NextDrafts ==
    \/ \E userId \in Users, context \in PredictionContexts : PredictAndDraft(userId, context)
    \/ ResumePredict
    \/ \E userId \in Users, draftId \in DraftIdInputs : SendDraft(userId, draftId)
    \/ \E userId \in Users, draftId \in DraftIdInputs : DiscardDraft(userId, draftId)
    \/ \E userId \in Users : GetPendingDrafts(userId)
    \/ Elapse

SpecDrafts == InitDrafts /\ [][NextDrafts]_vars


(***************************************************************************)
(* Claims about the drafts of the Intent Projection engine.                *)
(***************************************************************************)

\* The drafts of a user, in the order in which they were stored.
DraftsOf(userId) == IF userId \in DOMAIN drafts THEN drafts[userId] ELSE <<>>

\* The user's drafts whose status is DRAFT, in order.
RECURSIVE Pending(_)
Pending(userDrafts) ==
    IF userDrafts = <<>> THEN <<>>
    ELSE IF Head(userDrafts).status = "DRAFT"
         THEN <<Head(userDrafts)>> \o Pending(Tail(userDrafts))
         ELSE Pending(Tail(userDrafts))

\* C27: after sendDraft(userId, draftId) or discardDraft(userId, draftId) has
\* returned true, getPendingDrafts(userId) contains no draft with that id,
\* whatever predictAndDraft calls produced the drafts (calls within one clock
\* tick included); and getPendingDrafts returns exactly the user's drafts
\* whose status is DRAFT.
C27_AcceptedDraftIsNoLongerPending ==
    /\ (reply.op \in {"sendDraft", "discardDraft"} /\ reply.result)
          => \A k \in 1..Len(getPendingDrafts(drafts, reply.userId)) :
                getPendingDrafts(drafts, reply.userId)[k].id # reply.draftId
    /\ reply.op = "getPendingDrafts" => reply.result = Pending(DraftsOf(reply.userId))

\* C28: sendDraft and discardDraft return false and change no draft when no
\* draft of that user has the id, also when a draft of another user has it.
C28_Step ==
    \A userId \in Users, draftId \in DraftIdInputs :
        (/\ reply'.op \in {"sendDraft", "discardDraft"}
         /\ SendDraft(userId, draftId) \/ DiscardDraft(userId, draftId)
         /\ \A k \in 1..Len(DraftsOf(userId)) : DraftsOf(userId)[k].id # draftId)
        => /\ reply'.result = FALSE
           /\ drafts' = drafts

C28_UnknownDraftIsRefused == [][C28_Step]_vars

\* sendDraft or discardDraft has returned false for an id that a draft of
\* another user has, and that draft is still a DRAFT.
C28_Witness ==
    /\ reply.op \in {"sendDraft", "discardDraft"}
    /\ reply.result = FALSE
    /\ \E other \in Users \ {reply.userId} :
          \E k \in 1..Len(DraftsOf(other)) :
              /\ DraftsOf(other)[k].id = reply.draftId
              /\ DraftsOf(other)[k].status = "DRAFT"


(***************************************************************************)
(* The Temporal Echo engine (intentProjection.ts, lines 438-556).          *)
(*                                                                         *)
(* createdAt, expiresAt and the bounds of a time range are readings of the *)
(* clock `time`. An embedding is a vector of small integers. A cosine      *)
(* similarity dot / (normA * normB) is kept as the pair of dot and         *)
(* sq = normA^2 * normB^2, so that it is compared without a square root:   *)
(* x -> x * |x| is increasing, and the similarity is below another one     *)
(* iff dot * |dot| / sq is. A similarity of 0 is dot 0, sq 1. minSimilarity*)
(* is in hundredths. The id, content and metadata of an entry are carried  *)
(* along and never read by the engine; they are not modelled. queryTime,   *)
(* the time the query took, is not modelled.                               *)
(***************************************************************************)

Abs(x) == IF x < 0 THEN -x ELSE x

RECURSIVE Dot(_, _)
Dot(a, b) == IF a = <<>> THEN 0 ELSE Head(a) * Head(b) + Dot(Tail(a), Tail(b))

\* Lines 415-433.
cosineSimilarity(a, b) ==
    IF Len(a) # Len(b) THEN [dot |-> 0, sq |-> 1]
    ELSE IF Dot(a, a) = 0 \/ Dot(b, b) = 0 THEN [dot |-> 0, sq |-> 1]
    ELSE [dot |-> Dot(a, b), sq |-> Dot(a, a) * Dot(b, b)]

\* similarity a is greater than similarity b
Greater(a, b) == a.dot * Abs(a.dot) * b.sq > b.dot * Abs(b.dot) * a.sq

\* similarity >= minSimilarity, minSimilarity in hundredths
AtLeastHundredths(similarity, minSimilarity) ==
    similarity.dot * Abs(similarity.dot) * 10000
        >= minSimilarity * Abs(minSimilarity) * similarity.sq

\* array.slice(0, end)
slice(array, end) ==
    IF end >= 0 THEN SubSeq(array, 1, AtMost(Len(array), end))
    ELSE SubSeq(array, 1, Len(array) + end)

\* Array.prototype.sort with a comparator, which is stable: `scored` sorted
\* by descending similarity (line 491).
RECURSIVE InsertBySimilarity(_, _)
InsertBySimilarity(sorted, item) ==
    IF sorted = <<>> THEN <<item>>
    ELSE IF Greater(item.similarity, Head(sorted).similarity)
         THEN <<item>> \o sorted
         ELSE <<Head(sorted)>> \o InsertBySimilarity(Tail(sorted), item)

RECURSIVE SortBySimilarity(_)
SortBySimilarity(scored) ==
    IF scored = <<>> THEN <<>>
    ELSE InsertBySimilarity(SortBySimilarity(SubSeq(scored, 1, Len(scored) - 1)),
                            scored[Len(scored)])

\* The same for line 513: `entries` sorted by descending createdAt.
RECURSIVE InsertByCreatedAt(_, _)
InsertByCreatedAt(sorted, entry) ==
    IF sorted = <<>> THEN <<entry>>
    ELSE IF entry.createdAt > Head(sorted).createdAt
         THEN <<entry>> \o sorted
         ELSE <<Head(sorted)>> \o InsertByCreatedAt(Tail(sorted), entry)

RECURSIVE SortByCreatedAt(_)
SortByCreatedAt(entries) ==
    IF entries = <<>> THEN <<>>
    ELSE InsertByCreatedAt(SortByCreatedAt(SubSeq(entries, 1, Len(entries) - 1)),
                           entries[Len(entries)])

\* Lines 466-493: the matches of a query, before the limit.
matches(userMemories, userEmbeddings, queryParams) ==
    LET byType ==
            IF Has(queryParams, "contentTypes") /\ Len(queryParams.contentTypes) > 0
            THEN SelectSeq(userMemories,
                           LAMBDA m : \E k \in 1..Len(queryParams.contentTypes) :
                                         queryParams.contentTypes[k] = m.contentType)
            ELSE userMemories
        byTime ==
            IF Has(queryParams, "timeRange")
            THEN SelectSeq(byType,
                           LAMBDA m : /\ m.createdAt >= queryParams.timeRange.start
                                      /\ m.createdAt <= queryParams.timeRange.end)
            ELSE byType
        minSimilarity ==
            IF Has(queryParams, "minSimilarity") /\ queryParams.minSimilarity # 0
            THEN queryParams.minSimilarity
            ELSE 50
        scored ==
            [index \in 1..Len(byTime) |->
                [memory     |-> byTime[index],
                 similarity |-> IF index <= Len(userEmbeddings)
                                THEN cosineSimilarity(queryParams.embedding,
                                                      userEmbeddings[index])
                                ELSE [dot |-> 0, sq |-> 1]]]
        kept ==
            SortBySimilarity(
                SelectSeq(scored,
                          LAMBDA item : AtLeastHundredths(item.similarity, minSimilarity)))
    IN  IF Has(queryParams, "embedding")
        THEN [k \in 1..Len(kept) |-> kept[k].memory]
        ELSE byTime

\* Line 496: queryParams.limit || 10
limitOf(queryParams) ==
    IF Has(queryParams, "limit") /\ queryParams.limit # 0 THEN queryParams.limit ELSE 10

\* Lines 462-506: the result of queryMemories(queryParams).
queryMemories(map, embeddingMap, queryParams) ==
    LET results == matches(GetOrEmpty(map, queryParams.userId),
                           GetOrEmpty(embeddingMap, queryParams.userId), queryParams)
    IN  [entries    |-> slice(results, limitOf(queryParams)),
         totalCount |-> Len(results)]

\* Line 524: !m.expiresAt || m.expiresAt > now
keeps(m, t) == ~ Has(m, "expiresAt") \/ m.expiresAt = 0 \/ m.expiresAt > t

\* A memory that expires at this very instant is kept.
cleanupExpiredMemories_KeepsThisInstant(map, userId, t) ==
    Put(map, userId,
        SelectSeq(GetOrEmpty(map, userId),
                  LAMBDA m : ~ Has(m, "expiresAt") \/ m.expiresAt >= t))

\* Lines 519-526: this.memories after cleanupExpiredMemories(userId) at
\* Date.now() = t.
cleanupExpiredMemories(map, userId, t) ==
    Put(map, userId, SelectSeq(GetOrEmpty(map, userId), LAMBDA m : keeps(m, t)))

\* Lines 534-555.
getMemoryStats(map, userId) ==
    LET userMemories == GetOrEmpty(map, userId)
        types == { userMemories[k].contentType : k \in 1..Len(userMemories) }
        timestamps == { userMemories[k].createdAt : k \in 1..Len(userMemories) }
        stats == [totalMemories |-> Len(userMemories),
                  byContentType |->
                      [type \in types |->
                          Cardinality({ k \in 1..Len(userMemories) :
                                          userMemories[k].contentType = type })]]
    IN  IF timestamps = {} THEN stats
        ELSE Put(Put(stats, "oldestMemory",
                     CHOOSE t \in timestamps : \A other \in timestamps : t <= other),
                 "newestMemory",
                 CHOOSE t \in timestamps : \A other \in timestamps : t >= other)

\* The memories that are stored at one time, and the embeddings that are.
MaxMemories == 2

\* The entries that are stored: with and without an expiry, with and without
\* an embedding, created at the first and at the second instant.
EntryInputs ==
    { Put(entry, "userId", userId) :
        userId \in Users,
        entry \in { [contentType |-> "note", createdAt |-> 1],
                    [contentType |-> "message", createdAt |-> 2],
                    [contentType |-> "note", createdAt |-> 1, expiresAt |-> 1],
                    [contentType |-> "message", createdAt |-> 1, expiresAt |-> 2,
                     embedding |-> <<1, 0>>],
                    [contentType |-> "note", createdAt |-> 2, expiresAt |-> 3,
                     embedding |-> <<0, 1>>] } }

\* The queries that are made: every limit without a filter, and each filter.
QueryInputs ==
    { Put(query, "userId", userId) :
        userId \in Users,
        query \in { <<>>,
                    [limit |-> 0],
                    [limit |-> 1],
                    [limit |-> 2],
                    [contentTypes |-> <<"message">>],
                    [contentTypes |-> <<>>, limit |-> 1],
                    [timeRange |-> [start |-> 1, end |-> 1]],
                    [timeRange |-> [start |-> 2, end |-> 2], limit |-> 0],
                    [embedding |-> <<1, 0>>],
                    [embedding |-> <<1, 1>>, minSimilarity |-> 80],
                    [embedding |-> <<0, 1>>, minSimilarity |-> 0, limit |-> 1] } }

\* The limits that are passed to getRecentMemories; no key is no argument.
RecentLimitInputs == {<<>>, [limit |-> 0], [limit |-> 1]}

InitEcho ==
    /\ devices = [u \in Users |-> <<>>]
    /\ policies = [u \in Users |-> <<>>]
    /\ orchestrationHistory = <<>>
    /\ calls = [c \in CallIds |-> IdleCall]
    /\ jobs = <<>>
    /\ now = FirstInstant
    /\ evalCall = NoEval
    /\ rng = NoEngine
    /\ decision = NoDecision
    /\ friction = NoFriction
    /\ time = FirstTime
    /\ ProjectionIdle
    /\ EchoIdle

\* The number of entries in the lists of a map.
Stored(map) ==
    Cardinality(UNION { { <<u, k>> : k \in 1..Len(map[u]) } : u \in DOMAIN map })

\* storeMemory(entry), lines 445-457. With a memories list and no embeddings
\* list for the user, line 455 calls push on undefined and throws, after the
\* entry is pushed on the memories list.
StoreMemory(entry) ==
    /\ Stored(memories) < MaxMemories
    /\ Stored(embeddings) < MaxMemories
    /\ LET fresh == ~ Has(memories, entry.userId)
           lists == IF fresh THEN Put(embeddings, entry.userId, <<>>) ELSE embeddings
       IN  /\ memories' = Put(memories, entry.userId,
                              Append(GetOrEmpty(memories, entry.userId), entry))
           /\ IF ~ Has(entry, "embedding")
              THEN /\ embeddings' = lists
                   /\ answer' = [op |-> "storeMemory", entry |-> entry, threw |-> FALSE]
              ELSE IF Has(lists, entry.userId)
              THEN /\ embeddings' = [lists EXCEPT ![entry.userId] =
                                        Append(lists[entry.userId], entry.embedding)]
                   /\ answer' = [op |-> "storeMemory", entry |-> entry, threw |-> FALSE]
              ELSE /\ embeddings' = lists
                   /\ answer' = [op |-> "storeMemory", entry |-> entry, threw |-> TRUE]
    /\ UNCHANGED <<orchestratorVars, quantumVars, friction, time, projectionVars>>

\* queryMemories(queryParams)
QueryMemories(queryParams) ==
    /\ answer' = [op |-> "queryMemories", queryParams |-> queryParams,
                  result |-> queryMemories(memories, embeddings, queryParams)]
    /\ UNCHANGED <<orchestratorVars, quantumVars, friction, time, projectionVars,
                   memories, embeddings>>

\* getRecentMemories(userId, limit), lines 511-514: sort() sorts the user's
\* stored list in place; the embeddings list is left as it is.
GetRecentMemories(userId, args) ==
    /\ LET sorted == SortByCreatedAt(GetOrEmpty(memories, userId))
       IN  /\ memories' = IF Has(memories, userId)
                          THEN [memories EXCEPT ![userId] = sorted]
                          ELSE memories
           /\ answer' = [op |-> "getRecentMemories", userId |-> userId, args |-> args,
                         result |-> slice(sorted, IF Has(args, "limit")
                                                  THEN args.limit ELSE 10)]
    /\ UNCHANGED <<orchestratorVars, quantumVars, friction, time, projectionVars,
                   embeddings>>

\* cleanupExpiredMemories(userId), lines 519-529
CleanupExpiredMemories(userId) ==
    /\ memories' = cleanupExpiredMemories(memories, userId, time)
    /\ answer' = [op |-> "cleanupExpiredMemories", userId |-> userId,
                  result |-> Len(GetOrEmpty(memories, userId))
                             - Len(cleanupExpiredMemories(memories, userId, time)[userId])]
    /\ UNCHANGED <<orchestratorVars, quantumVars, friction, time, projectionVars,
                   embeddings>>

\* getMemoryStats(userId)
GetMemoryStats(userId) ==
    /\ answer' = [op |-> "getMemoryStats", userId |-> userId,
                  result |-> getMemoryStats(memories, userId)]
    /\ UNCHANGED <<orchestratorVars, quantumVars, friction, time, projectionVars,
                   memories, embeddings>>

NextEcho ==
    \/ \E entry \in EntryInputs : StoreMemory(entry)
    \/ \E queryParams \in QueryInputs : QueryMemories(queryParams)
    \/ \E userId \in Users, args \in RecentLimitInputs : GetRecentMemories(userId, args)
    \/ \E userId \in Users : CleanupExpiredMemories(userId)
    \/ \E userId \in Users : GetMemoryStats(userId)
    \/ Elapse

SpecEcho == InitEcho /\ [][NextEcho]_vars


(***************************************************************************)
(* Claims about the Temporal Echo engine.                                  *)
(***************************************************************************)

\* The memories of a user in a memories map, in stored order.
MemoriesOf(map, userId) == IF userId \in DOMAIN map THEN map[userId] ELSE <<>>

\* The memory has an expiry time and that time is not after t.
Expired(m, t) == "expiresAt" \in DOMAIN m /\ m.expiresAt <= t

RECURSIVE Unexpired(_, _)
Unexpired(entries, t) ==
    IF entries = <<>> THEN <<>>
    ELSE IF Expired(Head(entries), t)
         THEN Unexpired(Tail(entries), t)
         ELSE <<Head(entries)>> \o Unexpired(Tail(entries), t)

C29_Step ==
    \A userId \in Users :
        (answer'.op = "cleanupExpiredMemories" /\ CleanupExpiredMemories(userId)) =>
            /\ MemoriesOf(memories', userId) = Unexpired(MemoriesOf(memories, userId), time)
            /\ answer'.result =
                  Cardinality({ k \in 1..Len(MemoriesOf(memories, userId)) :
                                  Expired(MemoriesOf(memories, userId)[k], time) })
            /\ getMemoryStats(memories', userId).totalMemories
                  = getMemoryStats(memories, userId).totalMemories - answer'.result
            /\ \A other \in Users \ {userId} :
                  /\ (other \in DOMAIN memories') = (other \in DOMAIN memories)
                  /\ MemoriesOf(memories', other) = MemoriesOf(memories, other)

IsPrefix(a, b) == Len(a) <= Len(b) /\ a = SubSeq(b, 1, Len(a))

\* C30: for every limit >= 0, queryMemories returns at most limit entries,
\* they are a prefix of the matches of the filters, and totalCount is the
\* number of those matches.
C30_QueryRespectsLimit ==
    (/\ answer.op = "queryMemories"
     /\ "limit" \in DOMAIN answer.queryParams
     /\ answer.queryParams.limit >= 0)
    => LET found == matches(MemoriesOf(memories, answer.queryParams.userId),
                            MemoriesOf(embeddings, answer.queryParams.userId),
                            answer.queryParams)
       IN  /\ Len(answer.result.entries) <= answer.queryParams.limit
           /\ IsPrefix(answer.result.entries, found)
           /\ answer.result.totalCount = Len(found)


(***************************************************************************)
(* Orchestration: frame, order and the live lists                          *)
(***************************************************************************)

\* The positions of the policies of the user that are active and whose
\* condition holds for the arguments of the call, at the present instant.
MatchingNow(call) ==
    { k \in 1..Len(policies[call.userId]) :
        /\ policies[call.userId][k].isActive
        /\ evaluateCondition(policies[call.userId][k].condition,
                             call.emotionVector, call.frictionScore, now) }

\* The step in which orchestrate is called, as C31 sees it.
C31_Step(c) ==
    (/\ calls[c].pc = "idle"
     /\ calls'[c].pc # "idle"
     /\ MatchingNow(calls'[c]) = {})
    => /\ calls'[c].pc = "done"
       /\ calls'[c].results = <<>>
       /\ devices' = devices
       /\ policies' = policies
       /\ orchestrationHistory' = orchestrationHistory

\* C31: an orchestrate call in which no active policy of the user matches
\* returns an empty list and leaves every device record, every policy list
\* and the history as they were.
C31_NoMatchChangesNothing == [][\A c \in CallIds : C31_Step(c)]_vars

\* A call has returned an empty list for a user who has a registered device,
\* an active policy that the arguments of the call do not match and nothing
\* else that is active.
C31_Witness ==
    \E c \in CallIds :
        /\ calls[c].pc = "done"
        /\ calls[c].results = <<>>
        /\ devices[calls[c].userId] # <<>>
        /\ policies[calls[c].userId] # <<>>
        /\ \E k \in 1..Len(policies[calls[c].userId]) :
              policies[calls[c].userId][k].isActive
        /\ \A k \in 1..Len(policies[calls[c].userId]) :
              policies[calls[c].userId][k].isActive =>
                 ~ evaluateCondition(policies[calls[c].userId][k].condition,
                                     calls[c].emotionVector, calls[c].frictionScore, now)
        /\ orchestrationHistory = <<>>


(***************************************************************************)
(* One orchestrate call on an engine whose devices are registered and      *)
(* whose policies are created before the call, with nothing else running   *)
(* but the clock.                                                          *)
(***************************************************************************)

\* Two actions on the same device that write the same key.
Sunset ==
    [id |-> "policy-6", userId |-> "u1", policyName |-> "Sunset",
     condition |-> <<>>,
     action |-> [devices |-> << [deviceId |-> "d1", command |-> "set_brightness",
                                 parameters |-> [brightness |-> 80]],
                                [deviceId |-> "d1", command |-> "dim",
                                 parameters |-> [brightness |-> 10]] >>],
     isActive |-> TRUE]

\* The policies u1 has created before the call.
MaxListed == 3

ListedPolicies == {FocusMode, RelaxMode, Disabled, OfficeHours, Sunset}

PolicyLists ==
    UNION { { list \in [1..n -> ListedPolicies] :
                \A k \in 1..n, m \in 1..n : list[k] = list[m] => k = m } :
            n \in 1..MaxListed }

\* registerDevice of every device, in turn.
RECURSIVE RegisterAll(_, _)
RegisterAll(devs, inputs) ==
    IF inputs = {} THEN devs
    ELSE LET device == CHOOSE input \in inputs : TRUE
         IN  RegisterAll(registerDevice(devs, device), inputs \ {device})

InitOrder ==
    /\ devices = RegisterAll([u \in Users |-> <<>>], DeviceInputs)
    /\ policies \in { [u1 |-> list, u2 |-> <<GuestMode>>] : list \in PolicyLists }
    /\ orchestrationHistory = <<>>
    /\ calls = [c \in CallIds |-> IdleCall]
    /\ jobs = <<>>
    /\ now = FirstInstant
    /\ evalCall = NoEval
    /\ rng = NoEngine
    /\ decision = NoDecision
    /\ friction = NoFriction
    /\ time = FirstTime
    /\ ProjectionIdle
    /\ EchoIdle

NextOrder ==
    \/ \E userId \in Users, emotionVector \in EmotionInputs, score \in FrictionInputs :
          Orchestrate(1, userId, emotionVector, score)
    \/ ResumeCommand(1)
    \/ ResumeExecute(1)
    \/ Tick

SpecOrder == InitOrder /\ [][NextOrder]_vars


\* The position of the policy of that name in the list of the user.
PositionOf(userId, policyName) ==
    CHOOSE k \in 1..Len(policies[userId]) : policies[userId][k].policyName = policyName

\* The entries of a device list whose outcome is a success, in list order.
Succeeded(entries, outcomes) ==
    LET positions == SelectSeq([k \in 1..Len(outcomes) |-> k],
                               LAMBDA k : outcomes[k].success)
    IN  [i \in 1..Len(positions) |-> entries[positions[i]]]

RECURSIVE WritesOfResults(_, _)
WritesOfResults(userId, results) ==
    IF results = <<>> THEN <<>>
    ELSE Succeeded(policies[userId][PositionOf(userId, Head(results).policyName)]
                       .action.devices,
                   Head(results).actions)
         \o WritesOfResults(userId, Tail(results))

\* The device actions a call has executed so far, in the order of its results
\* and, within a result, of its outcomes; last the action whose command has
\* been sent and is awaited.
Writes(call) ==
    LET entries == policies[call.userId][call.idx].action.devices
    IN  WritesOfResults(call.userId, call.results)
        \o (IF call.pc \in {"awaitCommand", "awaitExecute"}
            THEN Succeeded(entries, call.actions) ELSE <<>>)
        \o (IF call.pc = "awaitCommand" THEN <<entries[call.j]>> ELSE <<>>)

\* The record the device was registered with.
RegisteredAs(userId, deviceId) ==
    CHOOSE device \in DeviceInputs : device.userId = userId /\ device.deviceId = deviceId

\* The last of a non-empty set of positions.
LastOf(positions) == CHOOSE i \in positions : \A m \in positions : m <= i

\* C32: within one orchestrate call the matched policies execute in creation
\* order and the device actions of a policy in list order: the results follow
\* the policy list, the outcomes follow the device list, every state key of a
\* device holds the value of the last executed action that wrote it (its
\* registered value when none did), and lastCommand is the command of the last
\* action executed on the device.
C32_LastActionInOrderWins ==
    \A c \in CallIds :
        calls[c].pc # "idle" =>
            LET call   == calls[c]
                u      == call.userId
                writes == Writes(call)
            IN  /\ \A i \in 1..Len(call.results), m \in 1..Len(call.results) :
                      i < m => PositionOf(u, call.results[i].policyName)
                                  < PositionOf(u, call.results[m].policyName)
                /\ \A i \in 1..Len(call.results) :
                      LET entries == policies[u][PositionOf(u, call.results[i].policyName)]
                                         .action.devices
                      IN  /\ Len(call.results[i].actions) = Len(entries)
                          /\ \A k \in 1..Len(entries) :
                                /\ call.results[i].actions[k].deviceId = entries[k].deviceId
                                /\ call.results[i].actions[k].command = entries[k].command
                /\ \A k \in 1..Len(devices[u]) :
                      LET device == devices[u][k]
                          on     == { i \in 1..Len(writes) :
                                        writes[i].deviceId = device.deviceId }
                          first  == RegisteredAs(u, device.deviceId).state
                      IN  /\ on = {} => device.state = first
                          /\ on # {} =>
                                /\ "lastCommand" \in DOMAIN device.state
                                /\ device.state.lastCommand = writes[LastOf(on)].command
                          /\ \A key \in (DOMAIN first
                                         \cup UNION { DOMAIN writes[i].parameters : i \in on })
                                        \ StampedKeys :
                                LET wrote == { i \in on : key \in DOMAIN writes[i].parameters }
                                IN  /\ key \in DOMAIN device.state
                                    /\ device.state[key]
                                          = IF wrote = {} THEN first[key]
                                            ELSE writes[LastOf(wrote)].parameters[key]

\* A call has returned after it ran Sunset (brightness 80, then 10, on d1) and
\* then Focus Mode (brightness 60 on d1): d1 has brightness 60 and the last
\* command set_brightness.
C32_Witness ==
    /\ calls[1].pc = "done"
    /\ calls[1].userId = "u1"
    /\ Len(calls[1].results) = 2
    /\ calls[1].results[1].policyName = "Sunset"
    /\ calls[1].results[2].policyName = "Focus Mode"
    /\ \E k \in 1..Len(devices["u1"]) :
          /\ devices["u1"][k].deviceId = "d1"
          /\ devices["u1"][k].state.brightness = 60
          /\ devices["u1"][k].state.lastCommand = "set_brightness"


\* The policy at position k of the user's list is active and its condition
\* holds for the arguments of the call, at the present instant.
SelectedNow(call, k) ==
    /\ policies[call.userId][k].isActive
    /\ evaluateCondition(policies[call.userId][k].condition,
                         call.emotionVector, call.frictionScore, now)

\* One step of call c, as C33 sees it. A policy is appended only after the
\* position the iteration is at; a step in which the loop of orchestrate moves
\* goes over the list as it is now: to the next policy that is selected, or to
\* the end of the list, where the call returns. A policy execution that starts
\* when the user has no device finds no device; in every other step of an
\* execution an entry succeeds iff its device is registered now.
C33_Step(c) ==
    LET call   == calls[c]
        next   == calls'[c]
        u      == next.userId
        from   == IF call.pc = "idle" THEN 0 ELSE call.idx
        starts == /\ next.pc \in {"awaitCommand", "awaitExecute"}
                  /\ (call.pc = "idle" \/ next.idx # call.idx)
        before == IF call.pc = "awaitCommand" THEN call.actions ELSE <<>>
    IN  /\ (InFlight(c) /\ policies' # policies) =>
              \A k \in 1..Len(policies'[call.userId]) :
                  k > Len(policies[call.userId]) => k > call.idx
        /\ (next # call /\ call.pc \in {"idle", "awaitExecute"}) =>
              /\ \A k \in (from + 1)..(next.idx - 1) :
                    k <= Len(policies[u]) /\ ~ SelectedNow(next, k)
              /\ next.pc = "done" => next.idx = Len(policies[u]) + 1
              /\ next.pc # "done" =>
                    next.idx <= Len(policies[u]) /\ SelectedNow(next, next.idx)
        /\ (next # call /\ starts /\ devices[u] = <<>>) =>
              /\ next.pc = "awaitExecute"
              /\ \A k \in 1..Len(next.actions) : ~ next.actions[k].success
        /\ (next # call /\ next.pc \in {"awaitCommand", "awaitExecute"}) =>
              \A k \in (Len(before) + 1)..Len(next.actions) :
                  next.actions[k].success
                      = (\E d \in 1..Len(devices[u]) :
                            devices[u][d].deviceId = next.actions[k].deviceId)

\* C33: orchestrate iterates the live policy list of the user: a policy that
\* is created for the user while the call is suspended is appended behind the
\* position of the iteration and is evaluated by the call; a device that is
\* registered during the call is found by a later action only if the user had
\* a device when the execution of the policy started.
C33_LiveListsDuringTheCall == [][\A c \in CallIds : C33_Step(c)]_vars

\* The call is suspended in the execution of the second policy of the list,
\* which started when the user had no device (every action failed), and a
\* device is registered for the user now.
C33_Witness ==
    \E c \in CallIds :
        /\ calls[c].pc = "awaitExecute"
        /\ calls[c].idx = 2
        /\ Len(calls[c].results) = 1
        /\ ~ calls[c].userDevicesLive
        /\ devices[calls[c].userId] # <<>>


(***************************************************************************)
(* The decision engine: the range of the confidence                        *)
(***************************************************************************)

\* C34: for a non-empty feature vector of length n the majority count c of
\* decide's confidence satisfies 3 * c >= n (the confidence is never below
\* 1/3), and the confidence is 1 iff all the trits that were drawn are equal.
C34_ConfidenceAtLeastOneThird ==
    (decision.count > 0 /\ decision.context.features # <<>>) =>
        LET c == decision.result.confidence.num
            n == decision.result.confidence.den
        IN  /\ n = Len(decision.context.features)
            /\ 3 * c >= n
            /\ (c = n) <=> (\A i \in 1..Len(decision.trits), k \in 1..Len(decision.trits) :
                              decision.trits[i] = decision.trits[k])

\* Three trits were drawn, all different: the confidence is 1/3.
C34_Witness ==
    /\ decision.count > 0
    /\ Len(decision.trits) = 3
    /\ { decision.trits[i] : i \in 1..3 } = {"TRUE", "FALSE", "SUPERPOSITION"}
    /\ decision.result.confidence = [num |-> 1, den |-> 3]


(***************************************************************************)
(* The drafts: the lifecycle of the status                                 *)
(***************************************************************************)

\* The drafts of a user after the step.
DraftsAfter(userId) == IF userId \in DOMAIN drafts' THEN drafts'[userId] ELSE <<>>

\* C35: the status of a draft is a one-way lifecycle: a draft is created with
\* the status DRAFT, no operation returns a draft to DRAFT, and SENT and
\* DISCARDED are terminal: sendDraft and discardDraft on a draft that is
\* already SENT or DISCARDED do not change its status.
C35_Step ==
    \A userId \in Users :
        /\ Len(DraftsAfter(userId)) >= Len(DraftsOf(userId))
        /\ \A k \in 1..Len(DraftsAfter(userId)) :
              IF k > Len(DraftsOf(userId))
              THEN DraftsAfter(userId)[k].status = "DRAFT"
              ELSE /\ DraftsAfter(userId)[k].id = DraftsOf(userId)[k].id
                   /\ DraftsOf(userId)[k].status # "DRAFT"
                        => DraftsAfter(userId)[k].status = DraftsOf(userId)[k].status

C35_StatusIsOneWay == [][C35_Step]_vars


(***************************************************************************)
(* The memories: the two lists of a user                                   *)
(***************************************************************************)

\* C36: storeMemory never fails: after any sequence of storeMemory,
\* cleanupExpiredMemories, queryMemories and getRecentMemories calls (a
\* cleanup for a user who has no memories yet included), storing an entry
\* that carries an embedding succeeds, and every user that has a memories
\* list also has an embeddings list.
C36_StoreMemoryNeverFails ==
    /\ answer.op = "storeMemory" => ~ answer.threw
    /\ DOMAIN memories \subseteq DOMAIN embeddings


(***************************************************************************)
(* The memories: the embedding a memory is scored with                     *)
(***************************************************************************)

\* The embeddings the entries were stored with, entry by entry; <<>> for an
\* entry without one, whose similarity to every query is 0.
OwnEmbeddings(entries) ==
    [k \in 1..Len(entries) |->
        IF Has(entries[k], "embedding") THEN entries[k].embedding ELSE <<>>]

\* obj without the key
Without(obj, key) == [k \in DOMAIN obj \ {key} |-> obj[k]]

\* The matches of a semantic query when every memory that passes the filters
\* of content type and time range is scored with its own embedding.
OwnMatches(userMemories, queryParams) ==
    LET filtered == matches(userMemories, <<>>, Without(queryParams, "embedding"))
    IN  matches(filtered, OwnEmbeddings(filtered), queryParams)

\* C37: in a semantic query each candidate memory is scored with its own
\* stored embedding: after any stores (with and without embeddings), filters,
\* getRecentMemories calls and cleanups, the similarity used for a memory is
\* the cosine similarity of the query embedding and the embedding the memory
\* was stored with, 0 when it had none.
C37_ScoredWithOwnEmbedding ==
    (answer.op = "queryMemories" /\ Has(answer.queryParams, "embedding"))
    => LET own == OwnMatches(MemoriesOf(memories, answer.queryParams.userId),
                             answer.queryParams)
       IN  answer.result = [entries    |-> slice(own, limitOf(answer.queryParams)),
                            totalCount |-> Len(own)]


(***************************************************************************)
(* The memories: getRecentMemories as a read                               *)
(***************************************************************************)

\* C38: getRecentMemories(userId, limit) returns at most limit of the user's
\* memories, in descending order of createdAt, and is a pure read: it leaves
\* the stored sequence of memories (and so the order of the results of later
\* queryMemories calls) as it was.
C38_Step ==
    answer'.op = "getRecentMemories" =>
        LET result == answer'.result
        IN  /\ Has(answer'.args, "limit") => Len(result) <= answer'.args.limit
            /\ \A k \in 1..Len(result) :
                  \E m \in 1..Len(MemoriesOf(memories, answer'.userId)) :
                      MemoriesOf(memories, answer'.userId)[m] = result[k]
            /\ \A k \in 1..(Len(result) - 1) : result[k].createdAt >= result[k + 1].createdAt
            /\ memories' = memories

C38_RecentMemoriesIsARead == [][C38_Step]_vars

====
